---- MODULE Spec2Model ----
(***************************************************************************)
(* A model of the Dria compute node's event loop and task dispatch:        *)
(* request routing (node/reqres.rs), the task responder (reqres/task.rs),  *)
(* the heartbeat requester (reqres/heartbeat.rs), the diagnostic reporter  *)
(* and the RPC liveness check (node/diagnostic.rs).                        *)
(*                                                                         *)
(* Time is in seconds.  Cryptography is opaque: a signed envelope is the   *)
(* pair (topic, payload), a ciphertext is the pair (public key, plaintext).*)
(***************************************************************************)
EXTENDS Integers, Sequences, FiniteSets, TLC

\* ------------------------------------------------------------- bounds
\* Response channels handed out, i.e. inbound requests received in a run.
MaxRequests == 3
\* Heartbeat ids issued in a run.
MaxHeartbeats == 2
\* Times the clock advances in a run.
MaxTicks == 3
\* The capacity of a worker's input channel and of the workers' shared
\* output channel (PUBLISH_CHANNEL_BUFSIZE) in the runs with bounded channels.
WorkerCapacity == 1
PublishCapacity == 1
\* The task requests it takes to fill both channels, a worker's hands and the
\* loop's send.
BurstRequests == PublishCapacity + WorkerCapacity + 2
\* The response channels of a run.
MaxChannels == IF MaxRequests >= BurstRequests THEN MaxRequests ELSE BurstRequests

\* ---------------------------------------------------- program constants
HEARTBEAT_DEADLINE == 60
HEARTBEAT_LIVENESS_SECS == 150
DEFAULT_WORKFLOW_BATCH_SIZE == 5

TASK_RESULT_TOPIC == "results"

\* ------------------------------------------------------------- models
\* The variants of enum Model.
Model ==
  { "Llama3_1_8bInstructQ4Km", "Llama3_2_1bInstructQ4Km", "Llama3_3_70bInstructQ4Km",
    "MistralNemo12b", "Gemma3_4b", "Gemma3_12b", "Gemma3_27b",
    "GPT4o", "GPT4oMini", "Gemini2_5ProExp", "Gemini2_0Flash",
    "OR3_5Sonnet", "OR3_7Sonnet" }

\* impl From<&Model> for ModelProvider
ModelProvider_from(model) ==
  CASE model = "Gemma3_12b" -> "Ollama"
    [] model = "Gemma3_27b" -> "Ollama"
    [] model = "Gemma3_4b" -> "Ollama"
    [] model = "Llama3_1_8bInstructQ4Km" -> "Ollama"
    [] model = "Llama3_2_1bInstructQ4Km" -> "Ollama"
    [] model = "Llama3_3_70bInstructQ4Km" -> "Ollama"
    [] model = "MistralNemo12b" -> "Ollama"
    [] model = "GPT4o" -> "OpenAI"
    [] model = "GPT4oMini" -> "OpenAI"
    [] model = "Gemini2_0Flash" -> "Gemini"
    [] model = "Gemini2_5ProExp" -> "Gemini"
    [] model = "OR3_5Sonnet" -> "OpenRouter"
    [] model = "OR3_7Sonnet" -> "OpenRouter"

\* Model::provider
provider(model) == ModelProvider_from(model)

\* impl fmt::Display for Model: the serde name of the variant, quotes trimmed.
Model_to_string(model) ==
  CASE model = "Llama3_1_8bInstructQ4Km" -> "llama3.1:8b-instruct-q4_K_M"
    [] model = "Llama3_2_1bInstructQ4Km" -> "llama3.2:1b-instruct-q4_K_M"
    [] model = "Llama3_3_70bInstructQ4Km" -> "llama3.3:70b-instruct-q4_K_M"
    [] model = "MistralNemo12b" -> "mistral-nemo:12b"
    [] model = "Gemma3_4b" -> "gemma3:4b"
    [] model = "Gemma3_12b" -> "gemma3:12b"
    [] model = "Gemma3_27b" -> "gemma3:27b"
    [] model = "GPT4o" -> "gpt-4o"
    [] model = "GPT4oMini" -> "gpt-4o-mini"
    [] model = "Gemini2_5ProExp" -> "gemini-2.5-pro-exp-03-25"
    [] model = "Gemini2_0Flash" -> "gemini-2.0-flash"
    [] model = "OR3_5Sonnet" -> "anthropic/claude-3.5-sonnet"
    [] model = "OR3_7Sonnet" -> "anthropic/claude-3-7-sonnet"

\* The strings checked against Model::try_from are sequences of at most
\* MaxPieces pieces, a piece being some plain text, a JSON escape sequence
\* or a double quote.
MaxPieces == 3
ModelStringPieces ==
  { "gpt-4", "o", "\\u006f", "anthropic", "/", "\\/", "claude-3.5-sonnet",
    "this-model-does-not-will-not-exist", "\\q", "\"" }

\* The string a sequence of pieces spells.
RECURSIVE concat(_)
concat(pieces) ==
  IF pieces = << >> THEN "" ELSE Head(pieces) \o concat(Tail(pieces))

\* serde_json reading one piece inside a JSON string: an escape sequence
\* gives the character it stands for, an unknown escape and a double quote
\* (which ends the string before the end of the input) are errors.
json_unescape(piece) ==
  CASE piece = "\\u006f" -> << "o" >>
    [] piece = "\\/" -> << "/" >>
    [] piece = "\\q" -> << >>
    [] piece = "\"" -> << >>
    [] OTHER -> << piece >>

\* serde_json::from_str::<Model> of a JSON string with the given content:
\* the variant whose serde name is the decoded content.
serde_json_from_str(pieces) ==
  IF \E i \in 1..Len(pieces) : json_unescape(pieces[i]) = << >>
    THEN [ok |-> FALSE]
    ELSE LET decoded == concat([i \in 1..Len(pieces) |-> json_unescape(pieces[i])[1]])
             variants == { m \in Model : Model_to_string(m) = decoded }
         IN IF variants = {} THEN [ok |-> FALSE]
            ELSE [ok |-> TRUE, model |-> CHOOSE m \in variants : TRUE]

\* impl TryFrom<&str> for Model: the value is put between quotes and read
\* as JSON.
Model_try_from(value) == serde_json_from_str(value)

\* ------------------------------------------------------------ batch size
\* The characters the values of DKN_BATCH_SIZE are made of in the runs
\* checked, and the longest value.
EnvChars == {"0", "5", "+", "-", " ", "a"}
MaxEnvLen == 2

Digits == {"0", "5"}
to_digit(c) == IF c = "0" THEN 0 ELSE 5

RECURSIVE from_digits(_)
\* The base-10 value of a sequence of digits, most significant first.
from_digits(digits) ==
  IF digits = << >> THEN 0
  ELSE 10 * from_digits(SubSeq(digits, 1, Len(digits) - 1))
         + to_digit(digits[Len(digits)])

\* str::parse::<usize>: an optional "+", then one digit or more and nothing
\* else; no whitespace is trimmed and no "-" is accepted. The values checked
\* are too short to exceed usize::MAX.
parse_usize(s) ==
  LET digits == IF s # << >> /\ s[1] = "+" THEN Tail(s) ELSE s
  IN IF digits # << >> /\ \A i \in 1..Len(digits) : digits[i] \in Digits
       THEN [ok |-> TRUE, value |-> from_digits(digits)]
       ELSE [ok |-> FALSE]

\* The batch size of DriaComputeNodeConfig::new: env_var is None when
\* DKN_BATCH_SIZE is not set.
batch_size_from_env(env_var) ==
  IF env_var = << >> THEN DEFAULT_WORKFLOW_BATCH_SIZE
  ELSE LET parsed == parse_usize(env_var[1])
       IN IF parsed.ok THEN parsed.value ELSE DEFAULT_WORKFLOW_BATCH_SIZE

\* The model sets a node is configured with (DKN_MODELS) in the runs checked.
ModelConfigs ==
  { {"GPT4o", "Gemma3_4b"}, {"Gemini2_0Flash"}, {"Gemma3_4b"} }

\* ------------------------------------------------------------ the node
VARIABLES
  now,                    \* chrono::Utc::now()
  config,                 \* DriaComputeNodeConfig: [models, batch_size]
  dria_rpc,               \* the trusted RPC descriptor: [peer_id, addr]
  connected,              \* the peers the p2p client is connected to
  task_request_batch_tx,  \* None, or the inputs queued for the batch worker
  task_request_single_tx, \* None, or the inputs queued for the single worker
  task_output_rx,         \* the workers' shared output channel
  pending_tasks_batch,    \* task_id -> TaskWorkerMetadata
  pending_tasks_single,   \* task_id -> TaskWorkerMetadata
  completed_tasks_batch,
  completed_tasks_single,
  heartbeats_reqs,        \* heartbeat_id -> deadline
  last_heartbeat_at,
  num_heartbeats,
  reqres_msg_opt,         \* the message the reqres arm of the select is handling
  next_channel,           \* response channels handed out so far
  next_heartbeat,         \* heartbeat ids generated so far
  heartbeat_requests,     \* the heartbeat requests p2p.request has sent
  responded,              \* response channel -> the data p2p.respond sent on it
  dispatched,             \* response channel -> the worker input sent for its request
  pc,                     \* where run() is: "loop", "exited", "diagnosed", "returned"
  cancellation,           \* the CancellationToken is cancelled
  task_workers,           \* the running workers, each with its receiver and publish_tx
  p2p_client,             \* the p2p client runs and holds the sender of reqres_rx
  closed,                 \* the receivers close() was called on
  p2p_shutdown,           \* "none", or the outcome of p2p.shutdown(): "ok", "err"
  final_diagnostics,      \* diagnostics printed after the loop
  model_str,              \* a string handed to Model::try_from, in pieces
  model_from,             \* None, or what Model::try_from returned for model_str
  rpc_calls,              \* the calls of the RPC liveness check that is running, in order
  DKN_BATCH_SIZE,         \* the environment variable: None, or its characters
  publish_tx_send         \* per worker: None, or the output whose send on publish_tx is awaited

vars ==
  << now, config, dria_rpc, connected, task_request_batch_tx,
     task_request_single_tx,
     task_output_rx, pending_tasks_batch, pending_tasks_single,
     completed_tasks_batch, completed_tasks_single, heartbeats_reqs,
     last_heartbeat_at, num_heartbeats, reqres_msg_opt, next_channel,
     next_heartbeat, heartbeat_requests, responded, dispatched, pc,
     cancellation, task_workers, p2p_client, closed, p2p_shutdown,
     final_diagnostics, model_str, model_from, rpc_calls,
     DKN_BATCH_SIZE, publish_tx_send >>

\* ------------------------------------------------------------- helpers
\* HashMap: a function on its key set.
EmptyMap == [k \in {} |-> k]
\* An insert that keeps the value of a key that is present.
insert_keeps_existing(map, k, v) ==
  [x \in (DOMAIN map) \cup {k} |-> IF x \in DOMAIN map THEN map[x] ELSE v]

insert(map, k, v) == [x \in (DOMAIN map) \cup {k} |-> IF x = k THEN v ELSE map[x]]
remove(map, k) == [x \in (DOMAIN map) \ {k} |-> map[x]]

\* Option<T>: the empty sequence, or a sequence of one.
NoneOpt == << >>
Some(v) == << v >>

Min(a, b) == IF a <= b THEN a ELSE b
RemoveAt(q, i) == [j \in 1..(Len(q) - 1) |-> IF j < i THEN q[j] ELSE q[j + 1]]

\* ------------------------------------------------- the node's environment
Peers == {"rpc1", "rpc2"}
\* The RPC nodes of the available-nodes directory.
RpcNodes ==
  { [peer_id |-> "rpc1", addr |-> "/ip4/1.1.1.1"],
    [peer_id |-> "rpc2", addr |-> "/ip4/2.2.2.2"] }

\* The seconds the clock advances by in one step.
TickSecs == HEARTBEAT_LIVENESS_SECS \div 2

\* Uuid::now_v7: the creation time and the random bits.
Uuid(unix_ts, rand) == [unix_ts |-> unix_ts, rand |-> rand]

\* An id no heartbeat of this node carries.
UnknownUuid == Uuid(0, 0)

TaskIds == {"t1", "t2"}
\* Model names asked for; each is left out of some configuration checked.
RequestedModels == {"gpt-4o", "gemini-2.0-flash", "gemma3:4b"}
GoodKey == "pkA"
OtherKey == "pkB"
\* The public key the requester of a task sends with it.
RequesterKey(task_id) == IF task_id = "t2" THEN OtherKey ELSE GoodKey
BadKey == "not-hex"

\* The bytes of a request, by what the parsers make of them.
TaskData(t, m, pk, d, ok) ==
  [ as_spec |-> FALSE, as_task |-> TRUE, payload_ok |-> ok,
    task_id |-> t, model |-> m, public_key |-> pk, deadline |-> d ]
SpecRequestIds == {"s1", "s2"}
SpecData(request_id) ==
  [as_spec |-> TRUE, as_task |-> FALSE, request_id |-> request_id]
\* A JSON object with the fields of a spec request and those of a task
\* request: each parser ignores the fields it does not know.
SpecAndTaskData(request_id, t, m, pk, d) ==
  [ as_spec |-> TRUE, as_task |-> TRUE, payload_ok |-> TRUE,
    request_id |-> request_id,
    task_id |-> t, model |-> m, public_key |-> pk, deadline |-> d ]
GarbageData == [as_spec |-> FALSE, as_task |-> FALSE]

\* The request payloads a peer may send at time t: well-formed tasks, tasks
\* with one defect each, a spec request, a payload that is both a spec
\* request and a task request, and bytes no parser accepts.
RequestData(t) ==
  { TaskData(id, m, RequesterKey(id), t + HEARTBEAT_DEADLINE, TRUE) :
      id \in TaskIds, m \in RequestedModels }
  \cup { TaskData("t1", "gpt-4o", GoodKey, d, TRUE) : d \in {t - 1, t} }
  \cup { TaskData("t1", "gpt-4o", BadKey, t + HEARTBEAT_DEADLINE, TRUE),
         TaskData("t1", "gpt-4o", GoodKey, t + HEARTBEAT_DEADLINE, FALSE) }
  \cup { IF id = "s2"
           THEN SpecAndTaskData(id, "t1", "gpt-4o", GoodKey, t + HEARTBEAT_DEADLINE)
           ELSE SpecData(id) : id \in SpecRequestIds }
  \cup { GarbageData }

\* The response payloads a peer may send: a heartbeat ACK for an id issued
\* or not, with or without an error, and bytes the parser rejects.
ResponseData(requests) ==
  { [as_heartbeat |-> TRUE, heartbeat_id |-> h, error |-> e] :
      h \in { r.heartbeat_id : r \in requests } \cup {UnknownUuid}, e \in {NoneOpt, Some("busy")} }
  \cup { [as_heartbeat |-> FALSE] }

\* What an executor run returns.
ExecutorResults ==
  { [ok |-> TRUE, value |-> "hello"], [ok |-> FALSE, value |-> "Provider error"] }

\* ------------------------------------------------------------- startup
\* A check that takes the OpenAI models for the only batchable ones.
has_batchable_models_openai_only(models) ==
  \E m \in models : provider(m) = "OpenAI"

\* DriaWorkflowsConfig::has_batchable_models
has_batchable_models(models) == \E m \in models : provider(m) # "Ollama"
\* DriaWorkflowsConfig::has_non_batchable_models
has_non_batchable_models(models) == \E m \in models : provider(m) = "Ollama"

\* Option<mpsc::Sender<TaskWorkerInput>> with the inputs it has queued.
Sender(exists) == [exists |-> exists, queue |-> << >>]

\* DriaComputeNode::new
Init ==
  /\ now = 0
  /\ config \in { [models |-> ms, batch_size |-> DEFAULT_WORKFLOW_BATCH_SIZE] :
                    ms \in ModelConfigs }
  /\ dria_rpc = [peer_id |-> "rpc1", addr |-> "/ip4/1.1.1.1"]
  /\ connected = {}
  /\ task_request_batch_tx = Sender(has_batchable_models(config.models))
  /\ task_request_single_tx = Sender(has_non_batchable_models(config.models))
  /\ task_output_rx = << >>
  /\ pending_tasks_batch = EmptyMap
  /\ pending_tasks_single = EmptyMap
  /\ completed_tasks_batch = 0
  /\ completed_tasks_single = 0
  /\ heartbeats_reqs = EmptyMap
  /\ last_heartbeat_at = now
  /\ num_heartbeats = 0
  /\ reqres_msg_opt = NoneOpt
  /\ next_channel = 0
  /\ next_heartbeat = 0
  /\ heartbeat_requests = {}
  /\ responded = [channel \in 1..MaxChannels |-> << >>]
  /\ dispatched = [channel \in 1..MaxChannels |-> NoneOpt]
  /\ pc = "loop"
  /\ cancellation = FALSE
  /\ task_workers = { w \in {"batch", "single"} :
                        IF w = "batch" THEN has_batchable_models(config.models)
                        ELSE has_non_batchable_models(config.models) }
  /\ p2p_client = TRUE
  /\ closed = {}
  /\ p2p_shutdown = "none"
  /\ final_diagnostics = 0
  /\ model_str = << >>
  /\ model_from = NoneOpt
  /\ DKN_BATCH_SIZE = NoneOpt
  /\ rpc_calls = << >>
  /\ publish_tx_send = [worker \in {"batch", "single"} |-> NoneOpt]

\* ------------------------------------------------------ variable groups
pendingVars == << pending_tasks_batch, pending_tasks_single >>
txVars == << task_request_batch_tx, task_request_single_tx >>
completedVars == << completed_tasks_batch, completed_tasks_single >>
heartbeatVars == << heartbeats_reqs, last_heartbeat_at, num_heartbeats >>

envVars == << cancellation, task_workers, p2p_client, publish_tx_send >>
shutdownVars == << closed, p2p_shutdown, final_diagnostics >>
lifeVars == << pc, envVars, shutdownVars >>
modelVars == << model_str, model_from >>

\* No arm of the select is running.
Idle == reqres_msg_opt = NoneOpt /\ rpc_calls = << >>

\* A loop that goes round its select whatever happened before.
AtSelect_after_break == Idle

\* The loop is at its select: run() has not left the loop and no arm is
\* running.
AtSelect == pc = "loop" /\ Idle

\* ------------------------------------------------------- task responder
\* DriaWorkflowsConfig::get_any_matching_model: the configured models that
\* carry the requested name (none: an error).
get_any_matching_model(name) ==
  { m \in config.models : Model_to_string(m) = name }

\* A deadline check that lets a task through at the instant of its deadline.
past_deadline_strict(deadline) == now > deadline

\* The deadline check of prepare_worker_input.
past_deadline(deadline) == now >= deadline

\* A key check that takes every string for a public key.
public_key_ok_any_string(pk) == TRUE

\* The public key decodes (hex::decode, PublicKey::parse_slice).
public_key_ok(pk) == pk # BadKey

\* A lane choice that sends every model to the batch lane.
batchable_of_every_model(model) == TRUE

\* A lane choice that batches the OpenAI models only.
batchable_of_openai_only(model) == provider(model) = "OpenAI"

\* The lane prepare_worker_input picks for a resolved model.
batchable_of(model) == provider(model) # "Ollama"

Err == [ok |-> FALSE]
Ok == [ok |-> TRUE]

\* eyre!: an error with its message.
eyre(message) == [ok |-> FALSE, message |-> message]

\* TaskResponder::prepare_worker_input, given the model it resolved.
prepared(task, model, channel) ==
  [ ok |-> TRUE,
    input |-> [task_id |-> task.task_id, batchable |-> batchable_of(model)],
    metadata |-> [ model_name |-> Model_to_string(model),
                   public_key |-> task.public_key,
                   channel |-> channel ] ]

\* TaskResponder::prepare_worker_input: the results it may return.
prepare_worker_input(task, channel) ==
  IF ~task.payload_ok THEN {Err}
  ELSE IF past_deadline(task.deadline) THEN {Err}
  ELSE IF ~public_key_ok(task.public_key) THEN {Err}
  ELSE IF get_any_matching_model(task.model) = {} THEN {Err}
  ELSE { prepared(task, m, channel) : m \in get_any_matching_model(task.model) }

\* ECIES encryption of the data to a public key.
encrypt_bytes(data, public_key) == << "ecies", public_key, data >>

\* TaskResponsePayload::new
TaskResponsePayload_new(result, task_id, public_key, model_name) ==
  [ task_id |-> task_id, model |-> model_name,
    result |-> Some(encrypt_bytes(result, public_key)), error |-> NoneOpt ]

\* TaskResponsePayload::new_error
TaskResponsePayload_new_error(err_string, task_id, model_name) ==
  [ task_id |-> task_id, model |-> model_name,
    result |-> NoneOpt, error |-> Some(err_string) ]

\* DriaComputeNode::new_message: the signed envelope.
new_message(data, topic) == [payload |-> data, topic |-> topic]

\* An envelope built with TaskResponsePayload::new whatever the result is.
send_output_response_always_new(task_output, task_metadata) ==
  new_message(
    TaskResponsePayload_new(task_output.result.value, task_output.task_id,
                            task_metadata.public_key, task_metadata.model_name),
    TASK_RESULT_TOPIC)

\* TaskResponder::send_output: the envelope it builds for a worker output.
send_output_response(task_output, task_metadata) ==
  IF task_output.result.ok
    THEN new_message(
           TaskResponsePayload_new(task_output.result.value, task_output.task_id,
                                   task_metadata.public_key, task_metadata.model_name),
           TASK_RESULT_TOPIC)
    ELSE new_message(
           TaskResponsePayload_new_error(task_output.result.value, task_output.task_id,
                                         task_metadata.model_name),
           TASK_RESULT_TOPIC)

\* DriaP2PCommander::respond
respond(data, channel) ==
  responded' = [responded EXCEPT ![channel] = Append(@, data)]

\* TaskResponder::send_output
send_output(task_output, task_metadata) ==
  respond(send_output_response(task_output, task_metadata), task_metadata.channel)

\* ------------------------------------------------------ request handlers
\* mpsc::Sender::send: the input is queued while the worker holds the
\* receiver, and the send fails once the receiver is gone.
send(tx, task_input, worker) ==
  IF worker \in task_workers THEN [tx EXCEPT !.queue = Append(@, task_input)]
  ELSE tx

\* A dispatch that sends the input without recording its metadata.
dispatch_without_insert(task_input, task_metadata) ==
  IF task_input.batchable
    THEN IF task_request_batch_tx.exists
           THEN /\ task_request_batch_tx' =
                     send(task_request_batch_tx, task_input, "batch")
                /\ UNCHANGED << pendingVars, task_request_single_tx >>
           ELSE UNCHANGED << pendingVars, txVars >>
    ELSE IF task_request_single_tx.exists
           THEN /\ task_request_single_tx' =
                     send(task_request_single_tx, task_input, "single")
                /\ UNCHANGED << pendingVars, task_request_batch_tx >>
           ELSE UNCHANGED << pendingVars, txVars >>

\* DriaComputeNode::handle_task_request, after prepare_worker_input succeeded.
dispatch(task_input, task_metadata) ==
  IF task_input.batchable
    THEN IF task_request_batch_tx.exists
           THEN /\ pending_tasks_batch' =
                     insert(pending_tasks_batch, task_input.task_id, task_metadata)
                /\ task_request_batch_tx' =
                     send(task_request_batch_tx, task_input, "batch")
                /\ UNCHANGED << pending_tasks_single, task_request_single_tx >>
           ELSE UNCHANGED << pendingVars, txVars >>
    ELSE IF task_request_single_tx.exists
           THEN /\ pending_tasks_single' =
                     insert(pending_tasks_single, task_input.task_id, task_metadata)
                /\ task_request_single_tx' =
                     send(task_request_single_tx, task_input, "single")
                /\ UNCHANGED << pending_tasks_batch, task_request_batch_tx >>
           ELSE UNCHANGED << pendingVars, txVars >>

\* DriaComputeNode::handle_task_request
handle_task_request(task_request, channel) ==
  /\ \E r \in prepare_worker_input(task_request, channel) :
       IF r.ok THEN dispatch(r.input, r.metadata)
       ELSE UNCHANGED << pendingVars, txVars >>
  /\ UNCHANGED << responded, completedVars, heartbeatVars >>

\* SpecCollector::collect: the specs of the node, of which the model keeps
\* the configured models.
collect == [models |-> { Model_to_string(m) : m \in config.models }]

\* A spec response that carries the same request id whatever the request.
spec_response_fixed_id(spec_request, specs) ==
  [request_id |-> "s1", specs |-> specs]

\* SpecResponder::respond
spec_response(spec_request, specs) ==
  [request_id |-> spec_request.request_id, specs |-> specs]

\* A spec handler that forgets the pending tasks.
handle_spec_request_clears_pending(spec_request, channel) ==
  /\ respond(spec_response(spec_request, collect), channel)
  /\ pending_tasks_batch' = EmptyMap
  /\ pending_tasks_single' = EmptyMap
  /\ UNCHANGED << txVars, completedVars, heartbeatVars >>

\* DriaComputeNode::handle_spec_request
handle_spec_request(spec_request, channel) ==
  /\ respond(spec_response(spec_request, collect), channel)
  /\ UNCHANGED << pendingVars, txVars, completedVars, heartbeatVars >>

\* DriaComputeNode::handle_request
handle_request(data, channel) ==
  IF data.as_spec THEN handle_spec_request(data, channel)
  ELSE IF data.as_task THEN handle_task_request(data, channel)
  ELSE UNCHANGED << responded, pendingVars, txVars, completedVars, heartbeatVars >>

\* --------------------------------------------------- heartbeat requester
\* An ACK handler that counts the ACK and leaves last_heartbeat_at alone.
handle_ack_counts_only(res) ==
  IF res.heartbeat_id \in DOMAIN heartbeats_reqs
    THEN /\ heartbeats_reqs' = remove(heartbeats_reqs, res.heartbeat_id)
         /\ IF res.error # NoneOpt
              THEN UNCHANGED << last_heartbeat_at, num_heartbeats >>
              ELSE /\ UNCHANGED last_heartbeat_at
                   /\ num_heartbeats' = num_heartbeats + 1
    ELSE UNCHANGED heartbeatVars

\* An ACK handler that turns a late ACK into an error.
handle_ack_rejects_late(res) ==
  IF res.heartbeat_id \in DOMAIN heartbeats_reqs
    THEN /\ heartbeats_reqs' = remove(heartbeats_reqs, res.heartbeat_id)
         /\ IF res.error # NoneOpt \/ now > heartbeats_reqs[res.heartbeat_id]
              THEN UNCHANGED << last_heartbeat_at, num_heartbeats >>
              ELSE /\ last_heartbeat_at' = now
                   /\ num_heartbeats' = num_heartbeats + 1
    ELSE UNCHANGED heartbeatVars

\* An ACK handler that counts an ACK whatever its id is.
handle_ack_counts_unknown(res) ==
  /\ heartbeats_reqs' = remove(heartbeats_reqs, res.heartbeat_id)
  /\ IF res.error # NoneOpt
       THEN UNCHANGED << last_heartbeat_at, num_heartbeats >>
       ELSE /\ last_heartbeat_at' = now
            /\ num_heartbeats' = num_heartbeats + 1

\* An ACK handler that looks the entry up and removes it only on success.
handle_ack_keeps_on_error(res) ==
  IF res.heartbeat_id \in DOMAIN heartbeats_reqs
    THEN IF res.error # NoneOpt
           THEN UNCHANGED heartbeatVars
           ELSE /\ heartbeats_reqs' = remove(heartbeats_reqs, res.heartbeat_id)
                /\ last_heartbeat_at' = now
                /\ num_heartbeats' = num_heartbeats + 1
    ELSE UNCHANGED heartbeatVars

\* HeartbeatRequester::handle_ack
handle_ack(res) ==
  IF res.heartbeat_id \in DOMAIN heartbeats_reqs
    THEN /\ heartbeats_reqs' = remove(heartbeats_reqs, res.heartbeat_id)
         /\ IF res.error # NoneOpt
              THEN UNCHANGED << last_heartbeat_at, num_heartbeats >>
              ELSE /\ last_heartbeat_at' = now
                   /\ num_heartbeats' = num_heartbeats + 1
    ELSE UNCHANGED heartbeatVars

\* What HeartbeatRequester::handle_ack returns.
handle_ack_result(res) ==
  IF res.heartbeat_id \in DOMAIN heartbeats_reqs
    THEN IF res.error # NoneOpt
           THEN eyre(<< "heartbeat was not acknowledged", res.error[1] >>)
           ELSE Ok
    ELSE eyre(<< "Received an unknown heartbeat response with id", res.heartbeat_id >>)

\* HashMap::len
len(map) == Cardinality(DOMAIN map)

\* A heartbeat payload that reports each lane under the other lane's name.
HeartbeatRequest_lanes_swapped(uuid) ==
  [ heartbeat_id |-> uuid,
    deadline |-> now + HEARTBEAT_DEADLINE,
    pending_batch |-> len(pending_tasks_single),
    pending_single |-> len(pending_tasks_batch),
    batch_size |-> config.batch_size ]

\* The HeartbeatRequest that send_heartbeat builds.
HeartbeatRequest(uuid) ==
  [ heartbeat_id |-> uuid,
    deadline |-> now + HEARTBEAT_DEADLINE,
    pending_batch |-> len(pending_tasks_batch),
    pending_single |-> len(pending_tasks_single),
    batch_size |-> config.batch_size ]

\* DriaP2PCommander::request of a heartbeat, when it succeeds.
request(peer_id, heartbeat_request) ==
  heartbeat_requests' =
    heartbeat_requests \cup
      {[ peer_id |-> peer_id,
         heartbeat_id |-> heartbeat_request.heartbeat_id,
         deadline |-> heartbeat_request.deadline,
         pending_batch |-> heartbeat_request.pending_batch,
         pending_single |-> heartbeat_request.pending_single,
         batch_size |-> heartbeat_request.batch_size ]}

\* HeartbeatRequester::send_heartbeat; uuid is the id Uuid::now_v7() made
\* and request_ok is what p2p.request returns: when it is an error the `?`
\* returns before the insert.
send_heartbeat(peer_id, uuid, request_ok) ==
  /\ next_heartbeat' = uuid.rand
  /\ IF request_ok
       THEN /\ request(peer_id, HeartbeatRequest(uuid))
            /\ heartbeats_reqs' = insert(heartbeats_reqs, uuid, now + HEARTBEAT_DEADLINE)
            /\ UNCHANGED << last_heartbeat_at, num_heartbeats >>
       ELSE UNCHANGED << heartbeatVars, heartbeat_requests >>

\* DriaComputeNode::handle_response
handle_response(data) ==
  /\ IF data.as_heartbeat THEN handle_ack(data) ELSE UNCHANGED heartbeatVars
  /\ UNCHANGED << responded, pendingVars, txVars, completedVars >>

\* A sender check that accepts every peer the node knows.
is_authorized_any_peer(peer_id) == peer_id \in Peers

\* The sender check of handle_reqres.
is_authorized(peer_id) == dria_rpc.peer_id = peer_id

\* A handle_reqres that applies the sender check to responses as well.
handle_reqres_checks_every_sender(message) ==
  IF ~is_authorized(message.peer_id)
    THEN UNCHANGED << responded, pendingVars, txVars, completedVars,
                      heartbeatVars >>
  ELSE IF message.kind = "Request"
    THEN handle_request(message.data, message.channel)
  ELSE handle_response(message.data)

\* DriaComputeNode::handle_reqres
handle_reqres(message) ==
  IF message.kind = "Request"
    THEN IF ~is_authorized(message.peer_id)
           THEN UNCHANGED << responded, pendingVars, txVars, completedVars,
                             heartbeatVars >>
           ELSE handle_request(message.data, message.channel)
    ELSE handle_response(message.data)

\* An output handler that looks the metadata up in the other lane's map.
send_task_output_other_lane(task_response) ==
  /\ IF task_response.batchable
       THEN /\ completed_tasks_batch' = completed_tasks_batch + 1
            /\ pending_tasks_single' = remove(pending_tasks_single, task_response.task_id)
            /\ UNCHANGED << completed_tasks_single, pending_tasks_batch >>
            /\ IF task_response.task_id \in DOMAIN pending_tasks_single
                 THEN send_output(task_response,
                                  pending_tasks_single[task_response.task_id])
                 ELSE UNCHANGED responded
       ELSE /\ completed_tasks_single' = completed_tasks_single + 1
            /\ pending_tasks_batch' = remove(pending_tasks_batch, task_response.task_id)
            /\ UNCHANGED << completed_tasks_batch, pending_tasks_single >>
            /\ IF task_response.task_id \in DOMAIN pending_tasks_batch
                 THEN send_output(task_response,
                                  pending_tasks_batch[task_response.task_id])
                 ELSE UNCHANGED responded
  /\ UNCHANGED << txVars, heartbeatVars >>

\* DriaComputeNode::send_task_output
send_task_output(task_response) ==
  /\ IF task_response.batchable
       THEN /\ completed_tasks_batch' = completed_tasks_batch + 1
            /\ pending_tasks_batch' = remove(pending_tasks_batch, task_response.task_id)
            /\ UNCHANGED << completed_tasks_single, pending_tasks_single >>
            /\ IF task_response.task_id \in DOMAIN pending_tasks_batch
                 THEN send_output(task_response,
                                  pending_tasks_batch[task_response.task_id])
                 ELSE UNCHANGED responded
       ELSE /\ completed_tasks_single' = completed_tasks_single + 1
            /\ pending_tasks_single' = remove(pending_tasks_single, task_response.task_id)
            /\ UNCHANGED << completed_tasks_batch, pending_tasks_batch >>
            /\ IF task_response.task_id \in DOMAIN pending_tasks_single
                 THEN send_output(task_response,
                                  pending_tasks_single[task_response.task_id])
                 ELSE UNCHANGED responded
  /\ UNCHANGED << txVars, heartbeatVars >>

\* ------------------------------------------------------------ diagnostics
is_offline == now > last_heartbeat_at + HEARTBEAT_LIVENESS_SECS

\* The "Node Status" line of handle_diagnostic_refresh.
node_status ==
  IF num_heartbeats = 0 THEN "CONNECTING"
  ELSE IF is_offline THEN "OFFLINE" ELSE "ONLINE"

\* DriaComputeNode::handle_diagnostic_refresh (&self): what it logs; it
\* changes nothing.
handle_diagnostic_refresh ==
  [status |-> node_status, restart_logged |-> is_offline]

\* DriaComputeNode::dial_with_timeout, when the dial succeeds in time.
dial(peer_id) == connected' = connected \cup {peer_id}

\* A refresh that never adopts the replacement RPC.
handle_available_nodes_refresh_keeps_rpc(is_connected, dial_ok, new_rpc, new_dial_ok) ==
  IF is_connected
    THEN /\ rpc_calls' = << "is_connected: true" >>
         /\ UNCHANGED << dria_rpc, connected >>
  ELSE IF dial_ok
    THEN /\ rpc_calls' = << "is_connected: false", "dial" >>
         /\ dial(dria_rpc.peer_id)
         /\ UNCHANGED dria_rpc
  ELSE IF new_rpc = NoneOpt
    THEN /\ rpc_calls' = << "is_connected: false", "dial", "DriaRPC::new" >>
         /\ UNCHANGED << dria_rpc, connected >>
  ELSE /\ rpc_calls' = << "is_connected: false", "dial", "DriaRPC::new", "dial" >>
       /\ UNCHANGED dria_rpc
       /\ IF new_dial_ok THEN dial(new_rpc[1].peer_id) ELSE UNCHANGED connected

\* A refresh that dials the trusted RPC whether or not it is connected.
handle_available_nodes_refresh_always_dials(is_connected, dial_ok, new_rpc, new_dial_ok) ==
  IF is_connected \/ dial_ok
    THEN /\ rpc_calls' = << IF is_connected THEN "is_connected: true"
                                            ELSE "is_connected: false",
                            "dial" >>
         /\ dial(dria_rpc.peer_id)
         /\ UNCHANGED dria_rpc
  ELSE IF new_rpc = NoneOpt
    THEN /\ rpc_calls' = << "is_connected: false", "dial", "DriaRPC::new" >>
         /\ UNCHANGED << dria_rpc, connected >>
  ELSE /\ rpc_calls' = << "is_connected: false", "dial", "DriaRPC::new", "dial" >>
       /\ dria_rpc' = new_rpc[1]
       /\ IF new_dial_ok THEN dial(new_rpc[1].peer_id) ELSE UNCHANGED connected

\* DriaComputeNode::handle_available_nodes_refresh; the arguments are what
\* p2p.is_connected, the two dials and DriaRPC::new return, and rpc_calls
\* is left with the calls made.
handle_available_nodes_refresh(is_connected, dial_ok, new_rpc, new_dial_ok) ==
  IF is_connected
    THEN /\ rpc_calls' = << "is_connected: true" >>
         /\ UNCHANGED << dria_rpc, connected >>
  ELSE IF dial_ok
    THEN /\ rpc_calls' = << "is_connected: false", "dial" >>
         /\ dial(dria_rpc.peer_id)
         /\ UNCHANGED dria_rpc
  ELSE IF new_rpc = NoneOpt
    THEN /\ rpc_calls' = << "is_connected: false", "dial", "DriaRPC::new" >>
         /\ UNCHANGED << dria_rpc, connected >>
  ELSE /\ rpc_calls' = << "is_connected: false", "dial", "DriaRPC::new", "dial" >>
       /\ dria_rpc' = new_rpc[1]
       /\ IF new_dial_ok THEN dial(new_rpc[1].peer_id) ELSE UNCHANGED connected

\* ---------------------------------------------------------- task workers
TaskWorkerOutput(task_input, result) ==
  [task_id |-> task_input.task_id, batchable |-> task_input.batchable, result |-> result]

\* The batch worker: up to batch_size inputs in flight, finishing in any order.
BatchWorker ==
  /\ AtSelect
  /\ "batch" \in task_workers
  /\ \E i \in 1..Min(Len(task_request_batch_tx.queue), config.batch_size),
        result \in ExecutorResults :
       /\ task_output_rx' =
            Append(task_output_rx,
                   TaskWorkerOutput(task_request_batch_tx.queue[i], result))
       /\ task_request_batch_tx' =
            [task_request_batch_tx EXCEPT !.queue = RemoveAt(@, i)]
  /\ UNCHANGED << now, config, DKN_BATCH_SIZE, modelVars, rpc_calls, dria_rpc, connected, lifeVars, task_request_single_tx, pendingVars,
                  completedVars, heartbeatVars, reqres_msg_opt, next_channel,
                  next_heartbeat, heartbeat_requests, responded, dispatched >>

\* The single worker: one input at a time, in order.
SingleWorker ==
  /\ AtSelect
  /\ "single" \in task_workers
  /\ task_request_single_tx.queue # << >>
  /\ \E result \in ExecutorResults :
       task_output_rx' =
         Append(task_output_rx,
                TaskWorkerOutput(Head(task_request_single_tx.queue), result))
  /\ task_request_single_tx' =
       [task_request_single_tx EXCEPT !.queue = Tail(@)]
  /\ UNCHANGED << now, config, DKN_BATCH_SIZE, modelVars, rpc_calls, dria_rpc, connected, lifeVars, task_request_batch_tx, pendingVars,
                  completedVars, heartbeatVars, reqres_msg_opt, next_channel,
                  next_heartbeat, heartbeat_requests, responded, dispatched >>

\* ------------------------------------------------------- the environment
\* The clock advances.
Tick ==
  /\ AtSelect
  /\ now + TickSecs <= MaxTicks * TickSecs
  /\ now' = now + TickSecs
  /\ UNCHANGED << config, DKN_BATCH_SIZE, modelVars, rpc_calls, dria_rpc, connected, lifeVars, txVars, task_output_rx, pendingVars,
                  completedVars, heartbeatVars, reqres_msg_opt, next_channel,
                  next_heartbeat, heartbeat_requests, responded, dispatched >>

\* The requests the p2p client may put on reqres_rx, each with a fresh channel.
RequestMessages ==
  { [kind |-> "Request", peer_id |-> peer_id, data |-> data,
     channel |-> next_channel + 1] :
      peer_id \in Peers, data \in RequestData(now) }

\* The responses the p2p client may put on reqres_rx.
ResponseMessages ==
  { [kind |-> "Response", peer_id |-> peer_id, data |-> data] :
      peer_id \in Peers, data \in ResponseData(heartbeat_requests) }

\* ---------------------------------------------- the select of run()
\* An arm that leaves the loop when its handler returns an error.
log_error_and_break(failed) == pc' = IF failed THEN "exited" ELSE pc

\* The `if let Err(e) = ... { log::error!(..) }` of the arms of the select:
\* the error of a handler is logged and the loop goes on.
log_error(failed) == UNCHANGED pc

\* send_task_output returns an error: no metadata for the output's task_id.
send_task_output_failed(task_response) ==
  task_response.task_id \notin
    DOMAIN (IF task_response.batchable THEN pending_tasks_batch
            ELSE pending_tasks_single)

\* task_output_rx.recv() returned an output.
OnTaskOutput ==
  /\ AtSelect
  /\ task_output_rx # << >>
  /\ task_output_rx' = Tail(task_output_rx)
  /\ send_task_output(Head(task_output_rx))
  /\ log_error(send_task_output_failed(Head(task_output_rx)))
  /\ UNCHANGED << now, config, DKN_BATCH_SIZE, modelVars, rpc_calls, dria_rpc, connected, envVars, shutdownVars, reqres_msg_opt, next_channel,
                  next_heartbeat, heartbeat_requests, dispatched >>

\* reqres_rx.recv() returned a message, which handle_reqres handles.
OnReqres(message) ==
  /\ AtSelect
  /\ p2p_client
  /\ reqres_msg_opt' = Some(message)
  /\ handle_reqres(message)
  /\ dispatched' =
       IF task_request_batch_tx' # task_request_batch_tx
         THEN [dispatched EXCEPT ![message.channel] =
                 Some(task_request_batch_tx'.queue[Len(task_request_batch_tx'.queue)])]
       ELSE IF task_request_single_tx' # task_request_single_tx
         THEN [dispatched EXCEPT ![message.channel] =
                 Some(task_request_single_tx'.queue[Len(task_request_single_tx'.queue)])]
       ELSE dispatched
  /\ UNCHANGED << now, config, DKN_BATCH_SIZE, modelVars, rpc_calls, dria_rpc, connected, lifeVars, task_output_rx, next_heartbeat, heartbeat_requests >>

\* The reqres arm on a request.
OnRequest ==
  /\ next_channel < MaxRequests
  /\ next_channel' = next_channel + 1
  /\ \E message \in RequestMessages : OnReqres(message)

\* The reqres arm on a response.
OnResponse ==
  /\ UNCHANGED next_channel
  /\ \E message \in ResponseMessages : OnReqres(message)

\* The reqres arm ends and the loop is back at its select.
EndReqres ==
  /\ reqres_msg_opt # NoneOpt
  /\ reqres_msg_opt' = NoneOpt
  /\ UNCHANGED << now, config, DKN_BATCH_SIZE, modelVars, rpc_calls, dria_rpc, connected, lifeVars, txVars, task_output_rx, pendingVars,
                  completedVars, heartbeatVars, next_channel, next_heartbeat, heartbeat_requests,
                  responded, dispatched >>

\* diagnostic_refresh_interval ticked.
OnDiagnosticRefresh ==
  /\ AtSelect
  /\ handle_diagnostic_refresh.status \in {"CONNECTING", "ONLINE", "OFFLINE"}
  /\ UNCHANGED vars

\* The rpc_liveness_refresh_interval arm of the select, with the outcomes
\* of the p2p calls and of the directory lookup it met.
RpcLivenessCheck(is_connected, dial_ok, new_rpc, new_dial_ok) ==
  /\ AtSelect
  /\ handle_available_nodes_refresh(is_connected, dial_ok, new_rpc, new_dial_ok)
  /\ UNCHANGED << now, config, DKN_BATCH_SIZE, modelVars, lifeVars, txVars, task_output_rx, pendingVars,
                  completedVars, heartbeatVars, reqres_msg_opt, next_channel,
                  next_heartbeat, heartbeat_requests, responded, dispatched >>

\* rpc_liveness_refresh_interval ticked.
OnRpcLivenessCheck ==
  \E is_connected \in (IF dria_rpc.peer_id \in connected THEN BOOLEAN
                        ELSE {FALSE}) :
    \E dial_ok \in (IF is_connected THEN {TRUE} ELSE BOOLEAN) :
      \E new_rpc \in (IF dial_ok THEN {NoneOpt}
                      ELSE {NoneOpt} \cup { Some(r) : r \in RpcNodes }) :
        \E new_dial_ok \in (IF new_rpc = NoneOpt THEN {TRUE} ELSE BOOLEAN) :
          RpcLivenessCheck(is_connected, dial_ok, new_rpc, new_dial_ok)

\* The RPC liveness arm ends and the loop is back at its select.
EndRpcLivenessCheck ==
  /\ rpc_calls # << >>
  /\ rpc_calls' = << >>
  /\ UNCHANGED << now, config, DKN_BATCH_SIZE, modelVars, dria_rpc, connected, lifeVars, txVars,
                  task_output_rx, pendingVars, completedVars, heartbeatVars,
                  reqres_msg_opt, next_channel, next_heartbeat,
                  heartbeat_requests, responded, dispatched >>

\* The p2p client gains or loses connections.
ConnectionChange ==
  /\ AtSelect
  /\ \E peers \in SUBSET Peers : connected' = peers
  /\ UNCHANGED << now, config, DKN_BATCH_SIZE, modelVars, rpc_calls, dria_rpc, lifeVars, txVars, task_output_rx,
                  pendingVars, completedVars, heartbeatVars, reqres_msg_opt,
                  next_channel, next_heartbeat, heartbeat_requests, responded,
                  dispatched >>

\* heartbeat_interval ticked.
OnHeartbeat ==
  /\ AtSelect
  /\ next_heartbeat < MaxHeartbeats
  /\ \E request_ok \in (IF p2p_client THEN BOOLEAN ELSE {FALSE}) :
       /\ send_heartbeat(dria_rpc.peer_id, Uuid(now, next_heartbeat + 1), request_ok)
       /\ log_error(~request_ok)
  /\ UNCHANGED << now, config, DKN_BATCH_SIZE, modelVars, rpc_calls, dria_rpc, connected, envVars, shutdownVars, txVars, task_output_rx, pendingVars,
                  completedVars, reqres_msg_opt, next_channel, responded,
                  dispatched >>

\* --------------------------------------------------- leaving the loop
\* The main thread cancels the token.
Cancel ==
  /\ Idle
  /\ ~cancellation
  /\ cancellation' = TRUE
  /\ UNCHANGED << now, config, DKN_BATCH_SIZE, modelVars, rpc_calls, dria_rpc, connected, pc, task_workers, p2p_client, publish_tx_send,
                  shutdownVars, txVars, task_output_rx, pendingVars,
                  completedVars, heartbeatVars, reqres_msg_opt, next_channel,
                  next_heartbeat, heartbeat_requests, responded, dispatched >>

\* A worker stops: its receiver and its publish_tx are dropped, and with
\* the receiver the inputs still queued.
WorkerStops ==
  /\ Idle
  /\ \E worker \in task_workers :
       /\ task_workers' = task_workers \ {worker}
       /\ IF worker = "batch"
            THEN /\ task_request_batch_tx' =
                      [task_request_batch_tx EXCEPT !.queue = << >>]
                 /\ UNCHANGED task_request_single_tx
            ELSE /\ task_request_single_tx' =
                      [task_request_single_tx EXCEPT !.queue = << >>]
                 /\ UNCHANGED task_request_batch_tx
  /\ UNCHANGED << now, config, DKN_BATCH_SIZE, modelVars, rpc_calls, dria_rpc, connected, pc, cancellation, p2p_client, publish_tx_send,
                  shutdownVars, task_output_rx, pendingVars, completedVars,
                  heartbeatVars, reqres_msg_opt, next_channel, next_heartbeat,
                  heartbeat_requests, responded, dispatched >>

\* The p2p client stops and drops the sender of reqres_rx.
P2PClientStops ==
  /\ Idle
  /\ p2p_client
  /\ p2p_client' = FALSE
  /\ connected' = {}
  /\ UNCHANGED << now, config, DKN_BATCH_SIZE, modelVars, rpc_calls, dria_rpc, pc, cancellation, task_workers, publish_tx_send,
                  shutdownVars, txVars, task_output_rx, pendingVars,
                  completedVars, heartbeatVars, reqres_msg_opt, next_channel,
                  next_heartbeat, heartbeat_requests, responded, dispatched >>

\* mpsc::Receiver::recv returns None: the channel is empty and every
\* publish_tx is dropped.
task_output_rx_recv_none == task_output_rx = << >> /\ task_workers = {}

\* mpsc::Receiver::recv returns None: the p2p client dropped its sender.
reqres_rx_recv_none == ~p2p_client

\* The `break` of an arm of the select.
break ==
  /\ pc' = "exited"
  /\ UNCHANGED << now, config, DKN_BATCH_SIZE, modelVars, rpc_calls, dria_rpc, connected, envVars, shutdownVars,
                  txVars, task_output_rx, pendingVars, completedVars,
                  heartbeatVars, reqres_msg_opt, next_channel, next_heartbeat,
                  heartbeat_requests, responded, dispatched >>

\* task_output_rx.recv() returned None.
OnTaskOutputClosed == AtSelect /\ task_output_rx_recv_none /\ break

\* reqres_rx.recv() returned None.
OnReqresClosed == AtSelect /\ reqres_rx_recv_none /\ break

\* cancellation.cancelled() completed.
OnCancellation == AtSelect /\ cancellation /\ break

\* The diagnostic that run() prints after the loop.
FinalDiagnostic ==
  /\ pc = "exited"
  /\ handle_diagnostic_refresh.status \in {"CONNECTING", "ONLINE", "OFFLINE"}
  /\ final_diagnostics' = final_diagnostics + 1
  /\ pc' = "diagnosed"
  /\ UNCHANGED << now, config, DKN_BATCH_SIZE, modelVars, rpc_calls, dria_rpc, connected, envVars, closed,
                  p2p_shutdown, txVars, task_output_rx, pendingVars,
                  completedVars, heartbeatVars, reqres_msg_opt, next_channel,
                  next_heartbeat, heartbeat_requests, responded, dispatched >>

\* DriaComputeNode::shutdown: the receivers are closed only after
\* p2p.shutdown() returned Ok.
shutdown(p2p_shutdown_ok) ==
  IF p2p_shutdown_ok
    THEN /\ p2p_shutdown' = "ok"
         /\ closed' = closed \cup {"task_output_rx", "reqres_rx"}
    ELSE /\ p2p_shutdown' = "err"
         /\ UNCHANGED closed

\* run() calls shutdown and returns.
Shutdown ==
  /\ pc = "diagnosed"
  /\ \E p2p_shutdown_ok \in (IF p2p_client THEN BOOLEAN ELSE {FALSE}) :
       shutdown(p2p_shutdown_ok)
  /\ pc' = "returned"
  /\ UNCHANGED << now, config, DKN_BATCH_SIZE, modelVars, rpc_calls, dria_rpc, connected, envVars, final_diagnostics,
                  txVars, task_output_rx, pendingVars, completedVars,
                  heartbeatVars, reqres_msg_opt, next_channel, next_heartbeat,
                  heartbeat_requests, responded, dispatched >>

\* ------------------------------------------------------- specifications
\* Task dispatch: requests, the workers and their outputs.
NextTasks ==
  \/ OnRequest
  \/ EndReqres
  \/ BatchWorker
  \/ SingleWorker
  \/ OnTaskOutput

SpecTasks == Init /\ [][NextTasks]_vars

\* The heartbeat protocol: heartbeats, their ACKs, the clock, the reports.
NextHeartbeat ==
  \/ Tick
  \/ OnHeartbeat
  \/ OnResponse
  \/ EndReqres
  \/ OnDiagnosticRefresh

SpecHeartbeat == Init /\ [][NextHeartbeat]_vars

\* The trusted RPC: the liveness check, connections coming and going, and
\* the requests and heartbeats that depend on the RPC, on a node that runs
\* one batchable model.
InitRpc == Init /\ config.models = {"Gemini2_0Flash"}

NextRpc ==
  \/ OnRpcLivenessCheck
  \/ EndRpcLivenessCheck
  \/ ConnectionChange
  \/ OnRequest
  \/ EndReqres
  \/ OnHeartbeat

SpecRpc == InitRpc /\ [][NextRpc]_vars

\* Heartbeats and their ACKs, from any peer, while the trusted RPC may be
\* replaced and the clock advances.
NextAcks ==
  \/ OnHeartbeat
  \/ OnResponse
  \/ EndReqres
  \/ OnRpcLivenessCheck
  \/ EndRpcLivenessCheck
  \/ Tick

SpecAcks == InitRpc /\ [][NextAcks]_vars

\* The life of run() on a node that runs one batchable model: the arms
\* that take work, the worker, and the ways out of the loop.
InitLoop == Init /\ config.models = {"Gemini2_0Flash"}

NextLoop ==
  \/ OnRequest
  \/ EndReqres
  \/ OnHeartbeat
  \/ BatchWorker
  \/ OnTaskOutput
  \/ Cancel
  \/ WorkerStops
  \/ P2PClientStops
  \/ OnTaskOutputClosed
  \/ OnReqresClosed
  \/ OnCancellation
  \/ FinalDiagnostic
  \/ Shutdown

SpecLoop == InitLoop /\ [][NextLoop]_vars

\* The handlers that can fail, on the same node, with the ways out of the
\* loop that need no worker to stop.
NextErrors ==
  \/ OnRequest
  \/ OnResponse
  \/ EndReqres
  \/ BatchWorker
  \/ OnTaskOutput
  \/ Cancel
  \/ P2PClientStops
  \/ OnReqresClosed
  \/ OnCancellation

SpecErrors == InitLoop /\ [][NextErrors]_vars

\* The pending maps on a node with both lanes, whose workers may stop; the
\* workers and the arms of the select that are ready run eventually.
NextPending ==
  \/ OnRequest
  \/ EndReqres
  \/ BatchWorker
  \/ SingleWorker
  \/ OnTaskOutput
  \/ WorkerStops

InitPending == Init /\ config.models = {"GPT4o", "Gemma3_4b"}

SpecPending ==
  /\ InitPending
  /\ [][NextPending]_vars
  /\ WF_vars(EndReqres)
  /\ WF_vars(BatchWorker)
  /\ WF_vars(SingleWorker)
  /\ WF_vars(OnTaskOutput)

\* Model names: strings are made, from pieces or by Model::to_string, and
\* handed to Model::try_from.
ModelString ==
  /\ \E n \in 0..MaxPieces : model_str' \in [1..n -> ModelStringPieces]
  /\ model_from' = NoneOpt
  /\ UNCHANGED << now, config, DKN_BATCH_SIZE, dria_rpc, connected, rpc_calls, lifeVars, txVars,
                  task_output_rx, pendingVars, completedVars, heartbeatVars,
                  reqres_msg_opt, next_channel, next_heartbeat,
                  heartbeat_requests, responded, dispatched >>

ModelToString ==
  /\ \E model \in Model : model_str' = << Model_to_string(model) >>
  /\ model_from' = NoneOpt
  /\ UNCHANGED << now, config, DKN_BATCH_SIZE, dria_rpc, connected, rpc_calls, lifeVars, txVars,
                  task_output_rx, pendingVars, completedVars, heartbeatVars,
                  reqres_msg_opt, next_channel, next_heartbeat,
                  heartbeat_requests, responded, dispatched >>

ModelTryFrom ==
  /\ model_from = NoneOpt
  /\ model_from' = Some(Model_try_from(model_str))
  /\ UNCHANGED << now, config, DKN_BATCH_SIZE, dria_rpc, connected, rpc_calls, lifeVars, txVars,
                  task_output_rx, pendingVars, completedVars, heartbeatVars,
                  reqres_msg_opt, next_channel, next_heartbeat,
                  heartbeat_requests, responded, dispatched, model_str >>

\* The environment sets or unsets DKN_BATCH_SIZE.
SetEnv ==
  /\ DKN_BATCH_SIZE' \in
       {NoneOpt} \cup
       { Some(s) : s \in UNION { [1..n -> EnvChars] : n \in 0..MaxEnvLen } }
  /\ UNCHANGED << now, config, modelVars, dria_rpc, connected, rpc_calls,
                  lifeVars, txVars, task_output_rx, pendingVars, completedVars,
                  heartbeatVars, reqres_msg_opt, next_channel, next_heartbeat,
                  heartbeat_requests, responded, dispatched >>

\* DriaComputeNodeConfig::new reads the batch size.
ConfigNew ==
  /\ config' = [config EXCEPT !.batch_size = batch_size_from_env(DKN_BATCH_SIZE)]
  /\ UNCHANGED << now, DKN_BATCH_SIZE, modelVars, dria_rpc, connected, rpc_calls,
                  lifeVars, txVars, task_output_rx, pendingVars, completedVars,
                  heartbeatVars, reqres_msg_opt, next_channel, next_heartbeat,
                  heartbeat_requests, responded, dispatched >>

\* ------------------------------------------------- bounded channels
\* The well-formed task requests of the trusted RPC for the Ollama model.
BurstMessages ==
  { m \in RequestMessages :
      /\ m.peer_id = dria_rpc.peer_id
      /\ m.data \in { TaskData(id, "gemma3:4b", RequesterKey(id),
                                now + HEARTBEAT_DEADLINE, TRUE) : id \in TaskIds } }

\* The sender handle_task_request picks for an input.
tx_of(task_input) ==
  IF task_input.batchable THEN task_request_batch_tx ELSE task_request_single_tx

\* The reqres arm on a task request, as far as the send to the worker:
\* handle_task_request has inserted the metadata and awaits tx.send.
OnTaskRequestAwaitsSend ==
  /\ AtSelect
  /\ p2p_client
  /\ next_channel < BurstRequests
  /\ next_channel' = next_channel + 1
  /\ \E message \in BurstMessages :
       /\ reqres_msg_opt' = Some(message)
       /\ is_authorized(message.peer_id)
       /\ \E r \in prepare_worker_input(message.data, message.channel) :
            IF r.ok /\ tx_of(r.input).exists
              THEN IF r.input.batchable
                     THEN /\ pending_tasks_batch' =
                               insert(pending_tasks_batch, r.input.task_id, r.metadata)
                          /\ UNCHANGED pending_tasks_single
                     ELSE /\ pending_tasks_single' =
                               insert(pending_tasks_single, r.input.task_id, r.metadata)
                          /\ UNCHANGED pending_tasks_batch
              ELSE UNCHANGED pendingVars
  /\ UNCHANGED << now, config, DKN_BATCH_SIZE, modelVars, rpc_calls, dria_rpc,
                  connected, lifeVars, txVars, task_output_rx, completedVars,
                  heartbeatVars, next_heartbeat, heartbeat_requests, responded,
                  dispatched >>

\* The input whose send the loop awaits: that of the request in
\* reqres_msg_opt, in the lane where its metadata was inserted.
awaited_input ==
  [ task_id |-> reqres_msg_opt[1].data.task_id,
    batchable |->
      /\ reqres_msg_opt[1].data.task_id \in DOMAIN pending_tasks_batch
      /\ pending_tasks_batch[reqres_msg_opt[1].data.task_id].channel
           = reqres_msg_opt[1].channel ]

\* tx.send(task_input).await returns once the worker's channel has room;
\* handle_task_request returns and the loop is back at its select.
SendReturns ==
  /\ pc = "loop"
  /\ reqres_msg_opt # NoneOpt
  /\ Len(tx_of(awaited_input).queue) < WorkerCapacity
  /\ IF awaited_input.batchable
       THEN /\ task_request_batch_tx' =
                 send(task_request_batch_tx, awaited_input, "batch")
            /\ UNCHANGED task_request_single_tx
       ELSE /\ task_request_single_tx' =
                 send(task_request_single_tx, awaited_input, "single")
            /\ UNCHANGED task_request_batch_tx
  /\ dispatched' = [dispatched EXCEPT ![reqres_msg_opt[1].channel] = Some(awaited_input)]
  /\ reqres_msg_opt' = NoneOpt
  /\ UNCHANGED << now, config, DKN_BATCH_SIZE, modelVars, rpc_calls, dria_rpc,
                  connected, lifeVars, task_output_rx, pendingVars, completedVars,
                  heartbeatVars, next_channel, next_heartbeat,
                  heartbeat_requests, responded >>

\* The single worker takes its next input and runs it, while or whether or
\* not the loop is at its select.
SingleWorkerExecutes ==
  /\ "single" \in task_workers
  /\ publish_tx_send["single"] = NoneOpt
  /\ task_request_single_tx.queue # << >>
  /\ \E result \in ExecutorResults :
       publish_tx_send' =
         [publish_tx_send EXCEPT !["single"] =
            Some(TaskWorkerOutput(Head(task_request_single_tx.queue), result))]
  /\ task_request_single_tx' =
       [task_request_single_tx EXCEPT !.queue = Tail(@)]
  /\ UNCHANGED << now, config, DKN_BATCH_SIZE, modelVars, rpc_calls, dria_rpc,
                  connected, pc, cancellation, task_workers, p2p_client,
                  shutdownVars, task_request_batch_tx, task_output_rx,
                  pendingVars, completedVars, heartbeatVars, reqres_msg_opt,
                  next_channel, next_heartbeat, heartbeat_requests, responded,
                  dispatched >>

\* publish_tx.send(output).await of the single worker returns once the
\* output channel has room.
SingleWorkerPublishes ==
  /\ publish_tx_send["single"] # NoneOpt
  /\ Len(task_output_rx) < PublishCapacity
  /\ task_output_rx' = Append(task_output_rx, publish_tx_send["single"][1])
  /\ publish_tx_send' = [publish_tx_send EXCEPT !["single"] = NoneOpt]
  /\ UNCHANGED << now, config, DKN_BATCH_SIZE, modelVars, rpc_calls, dria_rpc,
                  connected, pc, cancellation, task_workers, p2p_client,
                  shutdownVars, txVars, pendingVars, completedVars,
                  heartbeatVars, reqres_msg_opt, next_channel, next_heartbeat,
                  heartbeat_requests, responded, dispatched >>

\* A node that serves an Ollama model only, with bounded channels.
InitBounded == Init /\ config.models = {"Gemma3_4b"}

NextBounded ==
  \/ OnTaskRequestAwaitsSend
  \/ SendReturns
  \/ SingleWorkerExecutes
  \/ SingleWorkerPublishes
  \/ OnTaskOutput

SpecBounded == InitBounded /\ [][NextBounded]_vars

NextConfig == SetEnv \/ ConfigNew

SpecConfig == Init /\ [][NextConfig]_vars

NextModels == ModelString \/ ModelToString \/ ModelTryFrom

SpecModels == Init /\ [][NextModels]_vars

\* Heartbeats while tasks are pending in both lanes: the tasks of the
\* single lane complete, those of the batch lane stay with their worker.
NextReport ==
  \/ OnRequest
  \/ EndReqres
  \/ SingleWorker
  \/ OnTaskOutput
  \/ OnHeartbeat

SpecReport == InitPending /\ [][NextReport]_vars

\* All the handlers of the select on one node that runs one batchable
\* model, with the traffic of a trusted RPC: task requests for the served
\* model, spec requests, and ACKs of the heartbeats issued.
OnTrustedRequest ==
  /\ next_channel < MaxRequests
  /\ next_channel' = next_channel + 1
  /\ \E message \in
         { m \in RequestMessages :
             /\ m.peer_id = dria_rpc.peer_id
             /\ m.data \in { SpecData("s1"),
                             TaskData("t1", "gemini-2.0-flash", RequesterKey("t1"),
                                      now + HEARTBEAT_DEADLINE, TRUE) } } :
       OnReqres(message)

OnAck ==
  /\ UNCHANGED next_channel
  /\ \E message \in
         { m \in ResponseMessages :
             /\ m.peer_id = dria_rpc.peer_id
             /\ m.data.as_heartbeat
             /\ m.data.heartbeat_id # UnknownUuid
             /\ m.data.error = NoneOpt } :
       OnReqres(message)

NextFrame ==
  \/ OnTrustedRequest
  \/ EndReqres
  \/ BatchWorker
  \/ OnTaskOutput
  \/ OnHeartbeat
  \/ OnAck
  \/ OnRpcLivenessCheck
  \/ EndRpcLivenessCheck
  \/ OnDiagnosticRefresh

SpecFrame == InitRpc /\ [][NextFrame]_vars

\* The whole node.
Next == NextTasks \/ NextHeartbeat \/ NextRpc \/ NextLoop \/ NextErrors \/ NextPending \/ NextModels \/ NextReport \/ NextFrame \/ NextConfig \/ NextBounded \/ NextAcks

Spec == Init /\ [][Next]_vars


\* ------------------------------------------------- properties: vocabulary
Channels == 1..MaxChannels

\* A datum passed to respond is a task response (a signed envelope).
IsTaskResponse(data) == "topic" \in DOMAIN data

\* The channels a task response was sent on.
TaskRespondedChannels ==
  { c \in Channels : \E i \in 1..Len(responded[c]) : IsTaskResponse(responded[c][i]) }

\* The channels whose request was accepted and handed to a worker.
DispatchedChannels == { c \in Channels : dispatched[c] # NoneOpt }

\* The accepted task requests carry pairwise-distinct task ids.
DistinctTaskIds ==
  \A c1, c2 \in DispatchedChannels :
    c1 # c2 => dispatched[c1][1].task_id # dispatched[c2][1].task_id

SeqRange(seq) == { seq[i] : i \in 1..Len(seq) }

\* The input of channel c is still with its worker, or its output is still
\* on the output channel.
InFlight(c) ==
  LET input == dispatched[c][1] IN
    \/ input \in SeqRange(IF input.batchable THEN task_request_batch_tx.queue
                          ELSE task_request_single_tx.queue)
    \/ \E o \in SeqRange(task_output_rx) :
         o.task_id = input.task_id /\ o.batchable = input.batchable

\* The pending entry of the task of channel c is the one made for channel c.
Tracked(c) ==
  LET input == dispatched[c][1]
      pending == IF input.batchable THEN pending_tasks_batch ELSE pending_tasks_single
  IN input.task_id \in DOMAIN pending /\ pending[input.task_id].channel = c

\* The step is the reqres arm handling the message left in reqres_msg_opt'.
HandlesMessage == AtSelect /\ reqres_msg_opt' # NoneOpt

\* The step is the reqres arm handling a request that passed the sender check
\* and is handled as a task request.
HandlesTaskRequest ==
  /\ HandlesMessage
  /\ reqres_msg_opt'[1].kind = "Request"
  /\ reqres_msg_opt'[1].peer_id = dria_rpc.peer_id
  /\ ~reqres_msg_opt'[1].data.as_spec
  /\ reqres_msg_opt'[1].data.as_task

\* ------------------------------------------------------------------- C1
\* C1: when the accepted task requests carry pairwise-distinct task ids,
\* every output drained from task_output_rx has produced exactly one respond,
\* on the channel of its own request and for its own task id, so that the
\* number of drained outputs equals the number of task responds; and no
\* channel is ever passed to respond twice.
C1_ResponseUniqueness ==
  /\ \A c \in Channels : Len(responded[c]) <= 1
  /\ DistinctTaskIds =>
       /\ completed_tasks_batch + completed_tasks_single
            = Cardinality(TaskRespondedChannels)
       /\ \A c \in TaskRespondedChannels :
            /\ c \in DispatchedChannels
            /\ responded[c][1].payload.task_id = dispatched[c][1].task_id
       /\ \A c \in DispatchedChannels :
            ~InFlight(c) => c \in TaskRespondedChannels

\* Distinct tasks of both lanes, all drained and answered.
C1_Witness ==
  /\ DistinctTaskIds
  /\ completed_tasks_batch >= 1
  /\ completed_tasks_single >= 1
  /\ Cardinality(TaskRespondedChannels) >= 2
  /\ \A c \in DispatchedChannels : ~InFlight(c)

\* ------------------------------------------------------------------- C2
\* C2: the task id of a task that gets its response is a key of exactly one
\* pending map between its dispatch and its response, and a key of neither
\* map before the dispatch and after the response.
C2_TaskExclusivity ==
  /\ \A c \in DispatchedChannels :
       LET task_id == dispatched[c][1].task_id
           in_batch == task_id \in DOMAIN pending_tasks_batch
           in_single == task_id \in DOMAIN pending_tasks_single
       IN IF c \in TaskRespondedChannels
            THEN ~in_batch /\ ~in_single
            ELSE (Tracked(c) /\ InFlight(c)) => (in_batch # in_single)
  /\ \A task_id \in TaskIds :
       (\A c \in DispatchedChannels : dispatched[c][1].task_id # task_id)
         => /\ task_id \notin DOMAIN pending_tasks_batch
            /\ task_id \notin DOMAIN pending_tasks_single

\* ------------------------------------------------------------------- C3
\* C3: no task id is a key of pending_tasks_batch and of pending_tasks_single
\* at the same time.
C3_PendingMapsDisjoint ==
  DOMAIN pending_tasks_batch \cap DOMAIN pending_tasks_single = {}

\* ------------------------------------------------------------------- C4
\* C4: the response built for a drained worker output is published under
\* the topic "results" and carries exactly one of result and error: the
\* result when the worker returned Ok, the error when it returned Err.
C4_ResultErrorExclusive ==
  [][ (AtSelect /\ task_output_rx # << >> /\ task_output_rx' = Tail(task_output_rx))
        => \A c \in Channels :
             responded'[c] # responded[c] =>
               LET data == responded'[c][Len(responded'[c])]
                   output == Head(task_output_rx)
               IN /\ data.topic = "results"
                  /\ (data.payload.result # NoneOpt) # (data.payload.error # NoneOpt)
                  /\ (data.payload.result # NoneOpt) = output.result.ok
                  /\ (data.payload.error # NoneOpt) = ~output.result.ok ]_vars

\* An Ok response and an Err response have both been sent.
C4_Witness ==
  \E c1, c2 \in TaskRespondedChannels :
    /\ responded[c1][1].payload.result # NoneOpt
    /\ responded[c1][1].payload.error = NoneOpt
    /\ responded[c2][1].payload.error # NoneOpt
    /\ responded[c2][1].payload.result = NoneOpt


\* ------------------------------------------------------------------- C5
\* C5: a request whose sender is not the current RPC peer is discarded:
\* respond is not called and the pending maps, the worker channels, the
\* completed counters, the heartbeat state and the RPC descriptor stay as
\* they were.
C5_UnauthorizedDiscarded ==
  [][ ( /\ HandlesMessage
        /\ reqres_msg_opt'[1].kind = "Request"
        /\ reqres_msg_opt'[1].peer_id # dria_rpc.peer_id )
        => UNCHANGED << responded, pendingVars, txVars, task_output_rx,
                        completedVars, heartbeatVars, dria_rpc, dispatched >> ]_vars

\* A well-formed task request for a configured model, from the peer that was
\* the RPC until the node switched to another one, met a node with a task
\* pending.
C5_Witness ==
  /\ reqres_msg_opt # NoneOpt
  /\ reqres_msg_opt[1].kind = "Request"
  /\ reqres_msg_opt[1].peer_id = "rpc1"
  /\ dria_rpc.peer_id = "rpc2"
  /\ reqres_msg_opt[1].data.as_task
  /\ reqres_msg_opt[1].data.payload_ok
  /\ now < reqres_msg_opt[1].data.deadline
  /\ reqres_msg_opt[1].data.public_key = GoodKey
  /\ get_any_matching_model(reqres_msg_opt[1].data.model) # {}
  /\ DOMAIN pending_tasks_batch # {}
  /\ reqres_msg_opt[1].data.task_id \notin DOMAIN pending_tasks_batch

\* ------------------------------------------------------------------- C6
\* C6: a task request whose deadline is not after the time of receipt is
\* rejected: respond is not called, nothing is inserted into a pending map,
\* nothing is sent to a worker and no counter changes.
C6_ExpiredRejected ==
  [][ ( /\ HandlesTaskRequest
        /\ reqres_msg_opt'[1].data.payload_ok
        /\ now >= reqres_msg_opt'[1].data.deadline )
        => UNCHANGED << responded, pendingVars, txVars, task_output_rx,
                        completedVars, dispatched >> ]_vars

\* A task request from the RPC, sound but for its deadline being the instant
\* of receipt, has been handled.
C6_Witness ==
  /\ reqres_msg_opt # NoneOpt
  /\ reqres_msg_opt[1].kind = "Request"
  /\ reqres_msg_opt[1].peer_id = dria_rpc.peer_id
  /\ ~reqres_msg_opt[1].data.as_spec
  /\ reqres_msg_opt[1].data.as_task
  /\ reqres_msg_opt[1].data.payload_ok
  /\ reqres_msg_opt[1].data.deadline = now
  /\ reqres_msg_opt[1].data.public_key = GoodKey
  /\ get_any_matching_model(reqres_msg_opt[1].data.model) # {}

\* ------------------------------------------------------------------- C7
\* C7: an accepted task whose model's provider is Ollama is marked
\* batchable = false, its metadata goes into pending_tasks_single and its
\* input to the single worker; a task of any other provider is marked
\* batchable = true and goes into pending_tasks_batch and to the batch worker;
\* the map and the sender of the other lane are left as they were.
C7_LaneByProvider ==
  [][ ( /\ HandlesTaskRequest
        /\ reqres_msg_opt'[1].data.payload_ok
        /\ now < reqres_msg_opt'[1].data.deadline
        /\ public_key_ok(reqres_msg_opt'[1].data.public_key)
        /\ get_any_matching_model(reqres_msg_opt'[1].data.model) # {} )
        => LET message == reqres_msg_opt'[1]
               task == message.data
               metadata == [ model_name |-> task.model,
                             public_key |-> task.public_key,
                             channel |-> message.channel ]
           IN \E model \in config.models :
                /\ Model_to_string(model) = task.model
                /\ IF ModelProvider_from(model) = "Ollama"
                     THEN /\ pending_tasks_single' =
                               [k \in DOMAIN pending_tasks_single \cup {task.task_id} |->
                                  IF k = task.task_id THEN metadata
                                  ELSE pending_tasks_single[k]]
                          /\ task_request_single_tx'.queue =
                               Append(task_request_single_tx.queue,
                                      [task_id |-> task.task_id, batchable |-> FALSE])
                          /\ UNCHANGED << pending_tasks_batch, task_request_batch_tx >>
                     ELSE /\ pending_tasks_batch' =
                               [k \in DOMAIN pending_tasks_batch \cup {task.task_id} |->
                                  IF k = task.task_id THEN metadata
                                  ELSE pending_tasks_batch[k]]
                          /\ task_request_batch_tx'.queue =
                               Append(task_request_batch_tx.queue,
                                      [task_id |-> task.task_id, batchable |-> TRUE])
                          /\ UNCHANGED << pending_tasks_single, task_request_single_tx >> ]_vars

\* An OpenAI task has just been accepted into the batch lane of a node that
\* has an Ollama task pending in the single lane.
C7_Witness ==
  /\ reqres_msg_opt # NoneOpt
  /\ reqres_msg_opt[1].kind = "Request"
  /\ reqres_msg_opt[1].data.as_task
  /\ reqres_msg_opt[1].data.model = "gpt-4o"
  /\ dispatched[reqres_msg_opt[1].channel]
       = Some([task_id |-> reqres_msg_opt[1].data.task_id, batchable |-> TRUE])
  /\ reqres_msg_opt[1].data.task_id \in DOMAIN pending_tasks_batch
  /\ reqres_msg_opt[1].data.task_id \notin DOMAIN pending_tasks_single
  /\ \E c \in DispatchedChannels :
       /\ ~dispatched[c][1].batchable
       /\ dispatched[c][1].task_id \in DOMAIN pending_tasks_single
       /\ pending_tasks_single[dispatched[c][1].task_id].model_name = "gemma3:4b"

\* ------------------------------------------------------------------- C9
\* The step is the reqres arm handling an ACK without an error for a
\* heartbeat id that is in heartbeats_reqs.
HandlesAck ==
  /\ HandlesMessage
  /\ reqres_msg_opt'[1].kind = "Response"
  /\ reqres_msg_opt'[1].data.as_heartbeat
  /\ reqres_msg_opt'[1].data.heartbeat_id \in DOMAIN heartbeats_reqs
  /\ reqres_msg_opt'[1].data.error = NoneOpt

\* C9: the liveness status is CONNECTING exactly while no ACK has been
\* accepted, ONLINE exactly while an ACK has been accepted and at most 150
\* seconds have passed since the last one, OFFLINE once more have passed; an
\* accepted ACK always leaves the node ONLINE, CONNECTING is left only for
\* ONLINE and never entered again, ONLINE turns OFFLINE only with time
\* passing and OFFLINE turns ONLINE only with an accepted ACK.
C9_LivenessStatus ==
  [][ LET status == handle_diagnostic_refresh.status
          status_after == handle_diagnostic_refresh.status'
      IN /\ (status = "CONNECTING") = (num_heartbeats = 0)
         /\ (status = "ONLINE") =
              (num_heartbeats > 0 /\ now - last_heartbeat_at <= 150)
         /\ (status = "OFFLINE") =
              (num_heartbeats > 0 /\ now - last_heartbeat_at > 150)
         /\ HandlesAck => status_after = "ONLINE"
         /\ status # "CONNECTING" => status_after # "CONNECTING"
         /\ (status = "CONNECTING" /\ status_after # "CONNECTING")
              => (HandlesAck /\ status_after = "ONLINE")
         /\ (status = "ONLINE" /\ status_after = "OFFLINE")
              => (now' > now /\ ~HandlesAck)
         /\ (status = "OFFLINE" /\ status_after = "ONLINE") => HandlesAck ]_vars

\* The node, ONLINE after its first ACK, has gone OFFLINE with a heartbeat
\* still awaiting its ACK.
C9_Witness ==
  /\ num_heartbeats = 1
  /\ handle_diagnostic_refresh.status = "OFFLINE"
  /\ heartbeats_reqs # EmptyMap

\* ------------------------------------------------------------------ C10
\* C10: an ACK without an error for a heartbeat id in heartbeats_reqs
\* removes that entry and no other, adds one to num_heartbeats and sets
\* last_heartbeat_at to the current time, also when the current time is past
\* the deadline stored for the id.
C10_AckAccepted ==
  [][ HandlesAck
        => LET uuid == reqres_msg_opt'[1].data.heartbeat_id
           IN /\ DOMAIN heartbeats_reqs' = DOMAIN heartbeats_reqs \ {uuid}
              /\ \A other \in DOMAIN heartbeats_reqs' :
                   heartbeats_reqs'[other] = heartbeats_reqs[other]
              /\ num_heartbeats' = num_heartbeats + 1
              /\ last_heartbeat_at' = now ]_vars

\* The only heartbeat sent so far was ACKed after its deadline, and the ACK
\* counted.
C10_Witness ==
  /\ reqres_msg_opt # NoneOpt
  /\ reqres_msg_opt[1].kind = "Response"
  /\ reqres_msg_opt[1].data.as_heartbeat
  /\ reqres_msg_opt[1].data.error = NoneOpt
  /\ { r.heartbeat_id : r \in heartbeat_requests } = {reqres_msg_opt[1].data.heartbeat_id}
  /\ now > reqres_msg_opt[1].data.heartbeat_id.unix_ts + HEARTBEAT_DEADLINE
  /\ heartbeats_reqs = EmptyMap
  /\ num_heartbeats = 1
  /\ last_heartbeat_at = now


\* ------------------------------------------------------------------ C11
\* C11: an ACK whose heartbeat id is not in heartbeats_reqs (never issued,
\* or acknowledged before) makes handle_ack return an error and leaves
\* heartbeats_reqs, num_heartbeats and last_heartbeat_at as they were, so
\* that a replayed ACK is counted at most once.
C11_UnknownAckIgnored ==
  [][ ( /\ HandlesMessage
        /\ reqres_msg_opt'[1].kind = "Response"
        /\ reqres_msg_opt'[1].data.as_heartbeat
        /\ reqres_msg_opt'[1].data.heartbeat_id \notin DOMAIN heartbeats_reqs )
        => /\ ~handle_ack_result(reqres_msg_opt'[1].data).ok
           /\ UNCHANGED << heartbeats_reqs, num_heartbeats, last_heartbeat_at >> ]_vars

\* The ACK of the only heartbeat sent, counted once at an earlier time, has
\* been replayed without an error and was not counted again.
C11_Witness ==
  /\ reqres_msg_opt # NoneOpt
  /\ reqres_msg_opt[1].kind = "Response"
  /\ reqres_msg_opt[1].data.as_heartbeat
  /\ reqres_msg_opt[1].data.error = NoneOpt
  /\ { r.heartbeat_id : r \in heartbeat_requests } = {reqres_msg_opt[1].data.heartbeat_id}
  /\ heartbeats_reqs = EmptyMap
  /\ num_heartbeats = 1
  /\ last_heartbeat_at < now

\* ------------------------------------------------------------------ C12
\* C12: an ACK with an error for a heartbeat id in heartbeats_reqs makes
\* handle_ack return an error that carries the ACK's message, removes that
\* entry, and leaves num_heartbeats and last_heartbeat_at as they were.
C12_ErrorAckRemoves ==
  [][ ( /\ HandlesMessage
        /\ reqres_msg_opt'[1].kind = "Response"
        /\ reqres_msg_opt'[1].data.as_heartbeat
        /\ reqres_msg_opt'[1].data.heartbeat_id \in DOMAIN heartbeats_reqs
        /\ reqres_msg_opt'[1].data.error # NoneOpt )
        => LET res == reqres_msg_opt'[1].data
               result == handle_ack_result(res)
           IN /\ ~result.ok
              /\ result.message[2] = res.error[1]
              /\ DOMAIN heartbeats_reqs' = DOMAIN heartbeats_reqs \ {res.heartbeat_id}
              /\ \A other \in DOMAIN heartbeats_reqs' :
                   heartbeats_reqs'[other] = heartbeats_reqs[other]
              /\ UNCHANGED << num_heartbeats, last_heartbeat_at >> ]_vars

\* The only heartbeat sent was answered with an error: its entry is gone and
\* no ACK has been counted.
C12_Witness ==
  /\ reqres_msg_opt # NoneOpt
  /\ reqres_msg_opt[1].kind = "Response"
  /\ reqres_msg_opt[1].data.as_heartbeat
  /\ reqres_msg_opt[1].data.error = Some("busy")
  /\ { r.heartbeat_id : r \in heartbeat_requests } = {reqres_msg_opt[1].data.heartbeat_id}
  /\ heartbeats_reqs = EmptyMap
  /\ num_heartbeats = 0

\* A heartbeat request leaves the node in this step.
SendsHeartbeat == heartbeat_requests' # heartbeat_requests

\* C13: on an RPC liveness tick that finds the trusted RPC disconnected,
\* fails to re-dial it, obtains a replacement and dials the replacement
\* successfully, the trusted RPC descriptor becomes the replacement and the
\* replacement is connected; from then on a request is authorized exactly
\* when it comes from the replacement's peer_id, and every heartbeat is
\* sent to the peer_id of the descriptor stored at that moment.
C13_ReplacementAdopted ==
  [][ /\ \A r \in RpcNodes :
           RpcLivenessCheck(FALSE, FALSE, Some(r), TRUE)
             => /\ dria_rpc' = r
                /\ r.peer_id \in connected'
                /\ \A p \in Peers : is_authorized(p)' <=> p = r.peer_id
      /\ ( /\ HandlesMessage
            /\ reqres_msg_opt'[1].kind = "Request"
            /\ reqres_msg_opt'[1].peer_id # dria_rpc.peer_id )
           => UNCHANGED << responded, dispatched, pendingVars >>
      /\ SendsHeartbeat
           => \E h \in heartbeat_requests' \ heartbeat_requests :
                /\ heartbeat_requests' = heartbeat_requests \cup {h}
                /\ h.peer_id = dria_rpc.peer_id ]_vars

\* The node moved from rpc1 to rpc2 and is connected to rpc2 only: it
\* sent one heartbeat to each of them and it is dispatching a task that
\* rpc2 requested.
C13_Witness ==
  /\ dria_rpc.peer_id = "rpc2"
  /\ connected = {"rpc2"}
  /\ { h.peer_id : h \in heartbeat_requests } = {"rpc1", "rpc2"}
  /\ reqres_msg_opt # NoneOpt
  /\ reqres_msg_opt[1].kind = "Request"
  /\ reqres_msg_opt[1].peer_id = "rpc2"
  /\ dispatched[reqres_msg_opt[1].channel] # NoneOpt

\* C14: on an RPC liveness tick that finds the trusted RPC disconnected,
\* fails to re-dial it, obtains a replacement and fails to dial the
\* replacement too, no variable of the node changes, the trusted RPC
\* descriptor included.
C14_FailedReplacementKeepsState ==
  [][ \A r \in RpcNodes :
        RpcLivenessCheck(FALSE, FALSE, Some(r), FALSE)
          => UNCHANGED << dria_rpc, connected, pendingVars, completedVars,
                          heartbeatVars, txVars, task_output_rx, lifeVars,
                          reqres_msg_opt, heartbeat_requests, responded >> ]_vars

\* ------------------------------------------------------------------ C16
\* The step is the reqres arm handling a spec request of the trusted RPC.
HandlesSpecRequest ==
  /\ HandlesMessage
  /\ reqres_msg_opt'[1].kind = "Request"
  /\ reqres_msg_opt'[1].peer_id = dria_rpc.peer_id
  /\ reqres_msg_opt'[1].data.as_spec

\* C16: a spec request from the trusted RPC makes the node respond exactly
\* once, on the channel that came with the request, with the request id of
\* the request and the specs listing the configured models; the pending
\* maps, the completed counters and the heartbeat state stay as they were.
C16_SpecRequestAnswered ==
  [][ HandlesSpecRequest
        => /\ responded' =
                [responded EXCEPT ![reqres_msg_opt'[1].channel] =
                   Append(@, [request_id |-> reqres_msg_opt'[1].data.request_id,
                              specs |-> [models |-> { Model_to_string(m) :
                                                        m \in config.models }]])]
           /\ UNCHANGED << pendingVars, completedVars, heartbeatVars >> ]_vars

\* The trusted RPC asked for the specs with request id s2 while a task was
\* pending and a heartbeat was awaiting its ACK, and got them.
C16_Witness ==
  /\ reqres_msg_opt # NoneOpt
  /\ reqres_msg_opt[1].kind = "Request"
  /\ reqres_msg_opt[1].peer_id = dria_rpc.peer_id
  /\ reqres_msg_opt[1].data.as_spec
  /\ reqres_msg_opt[1].data.request_id = "s2"
  /\ Len(responded[reqres_msg_opt[1].channel]) = 1
  /\ responded[reqres_msg_opt[1].channel][1].request_id = "s2"
  /\ DOMAIN pending_tasks_batch # {}
  /\ DOMAIN heartbeats_reqs # {}

\* ------------------------------------------------------------------ C15
\* C15: an entry of a pending map is eventually removed from it, or the
\* loop exits and surfaces it: no task_id stays a key of a pending map for
\* ever while the loop runs, also when the send to the worker failed.
C15_PendingEventuallyRemoved ==
  \A t \in TaskIds :
    /\ (t \in DOMAIN pending_tasks_batch)
          ~> (t \notin DOMAIN pending_tasks_batch \/ pc # "loop")
    /\ (t \in DOMAIN pending_tasks_single)
          ~> (t \notin DOMAIN pending_tasks_single \/ pc # "loop")

\* ------------------------------------------------------------------ C17
\* The step is the task output arm draining an output.
DrainsOutput ==
  AtSelect /\ task_output_rx # << >> /\ task_output_rx' = Tail(task_output_rx)

\* What the handlers of the select change.
handlerVars ==
  << responded, dispatched, pendingVars, completedVars, heartbeatVars,
     heartbeat_requests, task_output_rx, reqres_msg_opt, dria_rpc >>

\* A reason for the loop to end: the worker output channel is closed, the
\* inbound channel is closed, or the token is cancelled.
ExitCause ==
  \/ task_output_rx = << >> /\ task_workers = {}
  \/ ~p2p_client
  \/ cancellation

\* C17: run() leaves its loop only when the worker output channel is
\* closed, the inbound channel is closed or the token is cancelled; after
\* the loop it prints exactly one diagnostic, calls shutdown only after that
\* diagnostic, and runs no inbound, worker output or timer handler any more.
C17_LoopExit ==
  [][ /\ pc' # pc
           => \/ pc = "loop" /\ pc' = "exited" /\ ExitCause
              \/ pc = "exited" /\ pc' = "diagnosed"
                   /\ final_diagnostics' = final_diagnostics + 1
              \/ pc = "diagnosed" /\ pc' = "returned" /\ p2p_shutdown' # "none"
      /\ final_diagnostics' = (IF pc' \in {"diagnosed", "returned"} THEN 1 ELSE 0)
      /\ << p2p_shutdown', closed' >> # << p2p_shutdown, closed >>
           => pc = "diagnosed" /\ pc' = "returned"
      /\ pc # "loop" => UNCHANGED handlerVars ]_vars

\* run() returned after the last worker stopped with a task still pending:
\* no cancellation, the p2p client running, one final diagnostic printed.
C17_Witness ==
  /\ pc = "returned"
  /\ final_diagnostics = 1
  /\ ~cancellation
  /\ p2p_client
  /\ task_workers = {}
  /\ DOMAIN pending_tasks_batch # {}
  /\ next_heartbeat > 0

\* ------------------------------------------------------------------ C18
\* C18: once shutdown has returned, the worker output channel and the
\* inbound channel are closed and p2p.shutdown has been called, whatever
\* p2p.shutdown returned.
C18_ShutdownCloses ==
  pc = "returned"
    => closed = {"task_output_rx", "reqres_rx"} /\ p2p_shutdown # "none"

\* ------------------------------------------------------------------ C19
\* C19: while the token is cancelled and the loop has not exited, no arm
\* of the select dispatches a handler: no message is handled, no worker
\* output is drained and no heartbeat is sent.
C19_NoWorkAfterCancellation ==
  [][ (cancellation /\ pc = "loop")
        => ~(HandlesMessage \/ DrainsOutput \/ SendsHeartbeat) ]_vars

\* ------------------------------------------------------------------ C20
\* The step is a handler that ends in an internal error: an unauthorized
\* sender, an unhandled request or response, an unknown heartbeat ACK, or
\* a worker output without metadata.
HandlerError ==
  \/ /\ HandlesMessage
     /\ reqres_msg_opt'[1].kind = "Request"
     /\ \/ reqres_msg_opt'[1].peer_id # dria_rpc.peer_id
        \/ ~reqres_msg_opt'[1].data.as_spec /\ ~reqres_msg_opt'[1].data.as_task
  \/ /\ HandlesMessage
     /\ reqres_msg_opt'[1].kind = "Response"
     /\ \/ ~reqres_msg_opt'[1].data.as_heartbeat
        \/ /\ reqres_msg_opt'[1].data.as_heartbeat
           /\ ~handle_ack_result(reqres_msg_opt'[1].data).ok
  \/ DrainsOutput /\ send_task_output_failed(Head(task_output_rx))

\* C20: a handler that ends in an internal error leaves the loop running,
\* and the loop is left only on a closed channel or on cancellation.
C20_ErrorsSwallowed ==
  [][ /\ HandlerError => pc' = "loop"
      /\ (pc = "loop" /\ pc' # "loop") => ExitCause ]_vars

\* The loop runs and handles an ACK for an unknown heartbeat after it took
\* three requests and drained two outputs, of which only one had metadata.
C20_Witness ==
  /\ pc = "loop"
  /\ reqres_msg_opt # NoneOpt
  /\ reqres_msg_opt[1].kind = "Response"
  /\ reqres_msg_opt[1].data.as_heartbeat
  /\ reqres_msg_opt[1].data.heartbeat_id = UnknownUuid
  /\ completed_tasks_batch = 2
  /\ Cardinality(TaskRespondedChannels) = 1
  /\ next_channel = 3
  /\ pending_tasks_batch = EmptyMap

\* ------------------------------------------------------------------ C23
\* The names of the models.
ModelNames == { Model_to_string(m) : m \in Model }

\* C23: Model::try_from of the name of a model returns that model, and
\* Model::try_from of a string that is the name of no model returns an
\* error.
C23_ModelNamesRoundTrip ==
  model_from # NoneOpt
    => IF concat(model_str) \in ModelNames
         THEN /\ model_from[1].ok
              /\ Model_to_string(model_from[1].model) = concat(model_str)
         ELSE ~model_from[1].ok

\* ------------------------------------------------------------------ C24
\* C24: a request of the trusted RPC whose payload parses as a task request
\* is handled as a task, whether or not it also parses as a spec request:
\* the handler does not respond on its channel.
C24_TaskParsedFirst ==
  [][(/\ HandlesMessage
      /\ reqres_msg_opt'[1].kind = "Request"
      /\ reqres_msg_opt'[1].peer_id = dria_rpc.peer_id
      /\ reqres_msg_opt'[1].data.as_task)
       => responded' = responded]_vars

\* ------------------------------------------------------------------ C25
\* C25: send_heartbeat makes an id that is not in heartbeats_reqs and
\* inserts it with the deadline now + 60 s before it calls p2p.request, so
\* that every call leaves its id in heartbeats_reqs, whatever p2p.request
\* returns, and issues at most one request, for that id.
C25_InsertBeforeRequest ==
  [][next_heartbeat' # next_heartbeat
       => LET uuid == Uuid(now, next_heartbeat') IN
            /\ uuid \notin DOMAIN heartbeats_reqs
            /\ uuid \in DOMAIN heartbeats_reqs'
            /\ heartbeats_reqs'[uuid] = now + HEARTBEAT_DEADLINE
            /\ Cardinality(heartbeat_requests' \ heartbeat_requests) <= 1
            /\ \A h \in heartbeat_requests' \ heartbeat_requests :
                 h.peer_id = dria_rpc.peer_id /\ h.heartbeat_id = uuid]_vars

\* ------------------------------------------------------------------ C26
\* C26: the payload of every heartbeat request reports, as of the moment
\* the heartbeat is sent, the size of pending_tasks_batch as pending_batch,
\* the size of pending_tasks_single as pending_single and the configured
\* batch size as batch_size.
C26_HeartbeatReportsPending ==
  [][SendsHeartbeat
       => \A h \in heartbeat_requests' \ heartbeat_requests :
            /\ h.pending_batch = Cardinality(DOMAIN pending_tasks_batch)
            /\ h.pending_single = Cardinality(DOMAIN pending_tasks_single)
            /\ h.batch_size = config.batch_size]_vars

\* Two heartbeats were sent, one with a task pending in the single lane
\* only and, after that task was answered, one with a task pending in the
\* batch lane only.
C26_Witness ==
  /\ \E h \in heartbeat_requests : h.pending_batch = 1 /\ h.pending_single = 0
  /\ \E h \in heartbeat_requests : h.pending_batch = 0 /\ h.pending_single = 1

\* ------------------------------------------------------------------ C27
\* The number of task responses passed to respond so far.
TaskResponds ==
  LET RECURSIVE count(_)
      count(c) ==
        IF c = 0 THEN 0
        ELSE count(c - 1)
               + Cardinality({ i \in 1..Len(responded[c]) : IsTaskResponse(responded[c][i]) })
  IN count(MaxRequests)

\* C27: the completed counters count the responded tasks: a worker output
\* whose task id is missing from the selected map changes neither counter,
\* so completed_tasks_batch + completed_tasks_single always equals the number
\* of task responses passed to respond.
C27_CompletedCountsResponds ==
  completed_tasks_batch + completed_tasks_single = TaskResponds

\* ------------------------------------------------------------------ C28
\* The input dispatched for channel c is still on the single worker's
\* channel: the channel is first in, first out, so it holds the inputs of
\* the latest dispatches.
StillQueued(c) ==
  LET input == dispatched[c][1]
      queue == task_request_single_tx.queue
  IN Cardinality({ i \in 1..Len(queue) : queue[i] = input })
       >= Cardinality({ d \in DispatchedChannels :
                          d >= c /\ dispatched[d][1] = input })

\* C28: a task response is sent on the channel that arrived with the
\* request whose worker output it answers, and on no other request's
\* channel: the channel belongs to a dispatched request for the task id of
\* the response and, in the single lane, the input of that request has been
\* taken by the worker when the response is sent.
C28_ResponseToOrigin ==
  \A c \in TaskRespondedChannels :
    /\ c \in DispatchedChannels
    /\ responded[c][1].payload.task_id = dispatched[c][1].task_id
    /\ ~dispatched[c][1].batchable => ~StillQueued(c)

\* ------------------------------------------------------------------ C29
\* C29: which workers exist is fixed at construction by the configured
\* models: the batch worker and its sender exist exactly when some
\* configured model is not an Ollama model, the single worker and its sender
\* exactly when some configured model is an Ollama model, and the outputs of
\* both workers arrive on the one output channel.
C29_WorkersByConfig ==
  LET some_non_ollama == \E m \in config.models : ModelProvider_from(m) # "Ollama"
      some_ollama == \E m \in config.models : ModelProvider_from(m) = "Ollama"
  IN /\ task_request_batch_tx.exists <=> some_non_ollama
     /\ "batch" \in task_workers <=> some_non_ollama
     /\ task_request_single_tx.exists <=> some_ollama
     /\ "single" \in task_workers <=> some_ollama
     /\ \A o \in SeqRange(task_output_rx) :
          IF o.batchable THEN some_non_ollama ELSE some_ollama

\* On a node serving an OpenAI and an Ollama model, the output channel holds
\* an output of the batch worker and an output of the single worker.
C29_Witness ==
  /\ task_request_batch_tx.exists /\ task_request_single_tx.exists
  /\ \E o \in SeqRange(task_output_rx) : o.batchable
  /\ \E o \in SeqRange(task_output_rx) : ~o.batchable

\* ------------------------------------------------------------------ C30
\* No configured model has the requested name.
Model_to_string_matches_none(name) ==
  \A m \in config.models : Model_to_string(m) # name

\* C30: a task request for which prepare_worker_input fails because the
\* payload does not parse, the public key does not decode or the requested
\* model matches no configured model is dropped: nothing is inserted into a
\* pending map, nothing is sent to a worker, respond is not called and no
\* counter changes.
C30_PrepareFailureDrops ==
  [][ ( /\ HandlesTaskRequest
        /\ \/ ~reqres_msg_opt'[1].data.payload_ok
           \/ reqres_msg_opt'[1].data.public_key = BadKey
           \/ Model_to_string_matches_none(reqres_msg_opt'[1].data.model) )
        => UNCHANGED << responded, pendingVars, txVars, task_output_rx,
                        completedVars, dispatched >> ]_vars

\* With a task pending, a task request of the trusted RPC that is sound but
\* for its public key, which does not decode, has been handled and was not
\* dispatched.
C30_Witness ==
  /\ reqres_msg_opt # NoneOpt
  /\ reqres_msg_opt[1].kind = "Request"
  /\ reqres_msg_opt[1].peer_id = dria_rpc.peer_id
  /\ ~reqres_msg_opt[1].data.as_spec
  /\ reqres_msg_opt[1].data.as_task
  /\ reqres_msg_opt[1].data.payload_ok
  /\ now < reqres_msg_opt[1].data.deadline
  /\ reqres_msg_opt[1].data.public_key = BadKey
  /\ get_any_matching_model(reqres_msg_opt[1].data.model) # {}
  /\ dispatched[reqres_msg_opt[1].channel] = NoneOpt
  /\ DOMAIN pending_tasks_batch # {}

\* ------------------------------------------------------------------ C31
\* The pending map of a lane.
PendingOf(batchable) ==
  IF batchable THEN pending_tasks_batch ELSE pending_tasks_single

\* The liveness check dialled a peer or replaced the trusted RPC.
RpcLivenessActs == dria_rpc' # dria_rpc \/ connected' # connected

\* C31: only handle_task_request writes an entry of a pending map and only
\* send_task_output removes one or changes a completed counter; sending a
\* heartbeat, handling an ACK, answering a spec request and the RPC
\* liveness check, an RPC switch included, leave both maps and both
\* counters as they were, and a worker output whose entry is pending is
\* answered on the channel of that entry whichever RPC is trusted by then.
C31_PendingFrame ==
  [][ /\ \A batchable \in BOOLEAN :
           /\ ( \E t \in DOMAIN PendingOf(batchable)' :
                   \/ t \notin DOMAIN PendingOf(batchable)
                   \/ PendingOf(batchable)'[t] # PendingOf(batchable)[t] )
                => HandlesTaskRequest
           /\ DOMAIN PendingOf(batchable) \ DOMAIN PendingOf(batchable)' # {}
                => DrainsOutput
      /\ completedVars' # completedVars => DrainsOutput
      /\ ( \/ SendsHeartbeat
           \/ HandlesMessage /\ reqres_msg_opt'[1].kind = "Response"
           \/ HandlesSpecRequest
           \/ RpcLivenessActs )
           => UNCHANGED << pendingVars, completedVars >>
      /\ DrainsOutput
           => LET task_output == Head(task_output_rx)
                  pending == PendingOf(task_output.batchable)
              IN task_output.task_id \in DOMAIN pending
                   => LET c == pending[task_output.task_id].channel
                      IN /\ Len(responded'[c]) = Len(responded[c]) + 1
                         /\ \A d \in Channels \ {c} : responded'[d] = responded[d] ]_vars

\* The one task ever dispatched was pending when a heartbeat went to rpc1
\* and still pending when a later heartbeat went to rpc2, the trusted RPC
\* having been replaced in between, and has been answered on its channel.
C31_Witness ==
  /\ Cardinality(DispatchedChannels) = 1
  /\ DispatchedChannels \subseteq TaskRespondedChannels
  /\ dria_rpc.peer_id = "rpc2"
  /\ \E h \in heartbeat_requests : h.peer_id = "rpc1" /\ h.pending_batch = 1
  /\ \E h \in heartbeat_requests : h.peer_id = "rpc2" /\ h.pending_batch = 1

\* ------------------------------------------------------------------ C32
\* The RPC liveness arm has just run its handler.
ChecksRpcLiveness == AtSelect /\ rpc_calls' # << >>

\* C32: on an RPC liveness tick where is_connected(dria_rpc.peer_id) returns
\* true the handler does nothing else: is_connected is the only call it
\* makes (no dial, no DriaRPC::new), and the trusted RPC descriptor, the
\* connections and every other field of the node are as they were.
C32_ConnectedTickIsNoop ==
  [][ (ChecksRpcLiveness /\ rpc_calls'[1] = "is_connected: true")
        => /\ rpc_calls' = << "is_connected: true" >>
           /\ UNCHANGED << dria_rpc, connected, pendingVars, completedVars,
                           heartbeatVars, txVars, task_output_rx, lifeVars,
                           reqres_msg_opt, heartbeat_requests, responded >> ]_vars

\* The liveness check found the RPC that replaced the first one connected.
C32_Witness ==
  /\ rpc_calls = << "is_connected: true" >>
  /\ dria_rpc.peer_id = "rpc2"
  /\ dria_rpc.peer_id \in connected

\* ------------------------------------------------------------------ C33
\* C33: whenever the diagnostic tick can fire, the report it would log has
\* the restart instruction exactly when its status line is OFFLINE, and so
\* never with CONNECTING or ONLINE.
C33_RestartOnlyWhenOffline ==
  AtSelect =>
    (handle_diagnostic_refresh.restart_logged
       <=> handle_diagnostic_refresh.status = "OFFLINE")

\* ------------------------------------------------------------------ C34
\* C34: the configured batch_size is always a positive integer, whatever
\* DKN_BATCH_SIZE holds when the configuration is read: never 0.
C34_BatchSizePositive == config.batch_size > 0

\* ------------------------------------------------------------------ C35
\* C35: a task request whose input is sent to a worker has its metadata in
\* the pending map of its lane, with its own channel, by the time the input
\* is on the worker's channel; and while the accepted requests carry
\* pairwise-distinct task ids, every output the loop drains finds its entry
\* in the map its batchable flag selects: send_task_output never fails with
\* "Channel not found", whatever the order of requests, workers and drains.
C35_OutputFindsEntry ==
  [][ /\ (HandlesTaskRequest /\ txVars' # txVars)
          => \E c \in Channels :
               /\ c = reqres_msg_opt'[1].channel
               /\ dispatched'[c] # NoneOpt
               /\ Tracked(c)'
      /\ (DrainsOutput /\ DistinctTaskIds)
          => /\ ~send_task_output_failed(Head(task_output_rx))
             /\ \E c \in DispatchedChannels :
                  /\ dispatched[c][1].task_id = Head(task_output_rx).task_id
                  /\ responded'[c] # responded[c] ]_vars

\* Every request was accepted, with distinct task ids, each output was
\* drained and each found its entry.
C35_Witness ==
  /\ DistinctTaskIds
  /\ Cardinality(DispatchedChannels) >= 2
  /\ DispatchedChannels = TaskRespondedChannels
  /\ completed_tasks_batch + completed_tasks_single = Cardinality(DispatchedChannels)
  /\ pending_tasks_batch = EmptyMap
  /\ pending_tasks_single = EmptyMap
  /\ task_output_rx = << >>

\* ------------------------------------------------------------------ C36
\* The request of channel c was accepted, has no response and the pending
\* entry of its task id is gone or belongs to another request.
Released(c) ==
  c \in DispatchedChannels /\ responded[c] = << >> /\ ~Tracked(c)

\* C36: a task request whose task id is pending in the lane it is
\* dispatched to replaces the entry: afterwards the entry carries the later
\* request's channel and the earlier channel has had no response; a channel
\* whose entry was replaced never gets a response; an output that finds an
\* entry is answered on the channel of that entry, the later request's, and
\* an output that finds none produces no respond at all.
C36_DuplicateReplaces ==
  [][ /\ \A id \in TaskIds, batchable \in BOOLEAN :
            ( /\ HandlesTaskRequest
              /\ dispatched'[reqres_msg_opt'[1].channel]
                   = Some([task_id |-> id, batchable |-> batchable])
              /\ id \in DOMAIN PendingOf(batchable) )
            => LET earlier == PendingOf(batchable)[id].channel
                   later == reqres_msg_opt'[1].channel
               IN /\ PendingOf(batchable)'[id].channel = later
                  /\ later # earlier
                  /\ responded'[earlier] = << >>
                  /\ responded'[later] = << >>
                  /\ \A c \in Channels : c = earlier => Released(c)'
      /\ \A c \in Channels : Released(c) => Released(c)'
      /\ DrainsOutput
            => LET output == Head(task_output_rx)
                   pending == PendingOf(output.batchable)
               IN IF output.task_id \in DOMAIN pending
                    THEN \A c \in Channels :
                           responded'[c] # responded[c]
                             <=> c = pending[output.task_id].channel
                    ELSE UNCHANGED responded ]_vars

\* Two requests with one task id in one lane, the second accepted while the
\* first was pending: both outputs were drained, the later channel has the
\* one response and the earlier channel none.
C36_Witness ==
  \E c1, c2 \in DispatchedChannels :
    /\ c1 < c2
    /\ dispatched[c1][1].task_id = dispatched[c2][1].task_id
    /\ dispatched[c1][1].batchable = dispatched[c2][1].batchable
    /\ DispatchedChannels = {c1, c2}
    /\ ~InFlight(c1)
    /\ Released(c1)
    /\ TaskRespondedChannels = {c2}
    /\ completed_tasks_batch + completed_tasks_single = 2

\* ------------------------------------------------------------------ C37
\* The loop awaits the send of an input to a worker whose channel is full.
LoopBlockedAtSend ==
  /\ pc = "loop"
  /\ reqres_msg_opt # NoneOpt
  /\ Len(tx_of(awaited_input).queue) >= WorkerCapacity

\* The worker awaits the send of an output to the full output channel.
WorkerBlockedAtPublish(worker) ==
  publish_tx_send[worker] # NoneOpt /\ Len(task_output_rx) >= PublishCapacity

\* C37: the loop and the workers never deadlock: in no reachable state is
\* the loop blocked sending an input to a full worker channel while the
\* worker that would make room in it is blocked sending to the full output
\* channel, which only the loop drains.
C37_NoSendDeadlock ==
  ~( /\ LoopBlockedAtSend
     /\ WorkerBlockedAtPublish(IF awaited_input.batchable THEN "batch" ELSE "single") )

\* ------------------------------------------------------------------ C38
\* C38: on a node built by DriaComputeNode::new, whenever
\* prepare_worker_input succeeds for a task request, the resolved model is a
\* configured one and the sender of the lane it selects exists, so the
\* request is dispatched: "no worker available" is never returned.
C38_WorkerAvailable ==
  [][ HandlesTaskRequest
        => \A r \in prepare_worker_input(reqres_msg_opt'[1].data,
                                          reqres_msg_opt'[1].channel) :
             r.ok => /\ get_any_matching_model(reqres_msg_opt'[1].data.model)
                          \subseteq config.models
                     /\ tx_of(r.input).exists
                     /\ dispatched'[reqres_msg_opt'[1].channel] # NoneOpt ]_vars

\* A node that has only one of the lanes has dispatched a task.
C38_Witness ==
  /\ DispatchedChannels # {}
  /\ ~task_request_batch_tx.exists \/ ~task_request_single_tx.exists

\* ------------------------------------------------------------------ C39
\* The step is the reqres arm handling a response that parses as a heartbeat
\* ACK, without an error, for an id in heartbeats_reqs.
HandlesOutstandingAck ==
  /\ HandlesMessage
  /\ reqres_msg_opt'[1].kind = "Response"
  /\ reqres_msg_opt'[1].data.as_heartbeat
  /\ reqres_msg_opt'[1].data.heartbeat_id \in DOMAIN heartbeats_reqs
  /\ reqres_msg_opt'[1].data.error = NoneOpt

\* C39: the sender check applies to requests only: an ACK for an
\* outstanding heartbeat id is handled by handle_ack whichever peer sent it,
\* so it removes the id, adds one to num_heartbeats and sets
\* last_heartbeat_at to now also when its sender is not the trusted RPC.
C39_AckFromAnyPeer ==
  [][ (HandlesOutstandingAck /\ reqres_msg_opt'[1].peer_id # dria_rpc.peer_id)
        => /\ num_heartbeats' = num_heartbeats + 1
           /\ last_heartbeat_at' = now
           /\ heartbeats_reqs' =
                remove(heartbeats_reqs, reqres_msg_opt'[1].data.heartbeat_id) ]_vars

\* After the trusted RPC was replaced by rpc2, an ACK of rpc1 for the
\* heartbeat sent to rpc1 has been counted.
C39_Witness ==
  /\ reqres_msg_opt # NoneOpt
  /\ reqres_msg_opt[1].kind = "Response"
  /\ reqres_msg_opt[1].peer_id = "rpc1"
  /\ dria_rpc.peer_id = "rpc2"
  /\ reqres_msg_opt[1].data.as_heartbeat
  /\ \E r \in heartbeat_requests :
       r.peer_id = "rpc1" /\ r.heartbeat_id = reqres_msg_opt[1].data.heartbeat_id
  /\ num_heartbeats = 1
  /\ last_heartbeat_at = now
  /\ now > 0

\* ------------------------------------------------------------------ C40
\* heartbeat_interval ticked in this step and send_heartbeat ran.
HeartbeatTick == next_heartbeat' # next_heartbeat

\* The step is the reqres arm handling a response that parses as a heartbeat
\* ACK carrying id.
HandlesAckOf(id) ==
  /\ HandlesMessage
  /\ reqres_msg_opt'[1].kind = "Response"
  /\ reqres_msg_opt'[1].data.as_heartbeat
  /\ reqres_msg_opt'[1].data.heartbeat_id = id

\* What a step does to heartbeats_reqs: an id enters it only when
\* send_heartbeat has issued its request, with the deadline
\* HEARTBEAT_DEADLINE after now; an entry leaves it only by an ACK carrying
\* its id, and is neither removed nor changed by the passing of its deadline
\* or by a later tick.
RemovedOnlyByAck ==
  /\ DOMAIN heartbeats_reqs' \subseteq { r.heartbeat_id : r \in heartbeat_requests' }
  /\ \A id \in DOMAIN heartbeats_reqs' \ DOMAIN heartbeats_reqs :
        /\ SendsHeartbeat
        /\ heartbeat_requests' \ heartbeat_requests
             = { r \in heartbeat_requests' : r.heartbeat_id = id }
        /\ heartbeats_reqs'[id] = now + HEARTBEAT_DEADLINE
  /\ \A id \in DOMAIN heartbeats_reqs :
        IF HandlesAckOf(id)
          THEN id \notin DOMAIN heartbeats_reqs'
          ELSE /\ id \in DOMAIN heartbeats_reqs'
               /\ heartbeats_reqs'[id] = heartbeats_reqs[id]

\* C40: heartbeats_reqs holds exactly the ids send_heartbeat issued that are
\* not yet acknowledged: an entry is removed only by an ACK carrying its id,
\* never by its deadline passing or by a later tick, and every heartbeat
\* tick on which no ACK is handled makes the set one larger.
C40_OutstandingHeartbeats ==
  [][ /\ RemovedOnlyByAck
      /\ HeartbeatTick
            => Cardinality(DOMAIN heartbeats_reqs')
                 = Cardinality(DOMAIN heartbeats_reqs) + 1 ]_vars

\* The part of C40 about removal, on its own.
EntriesRemovedOnlyByAck == [][RemovedOnlyByAck]_vars

====
